---- MODULE Spec2Model ----
(***************************************************************************)
(* A model of nga-mcp-server: the crawl_post tool (page sweeps under a     *)
(* concurrency gate and a wall-clock budget, then the de-duplication, the  *)
(* sort and the cap of the accumulated posts), the deep phase of the board *)
(* index build, and query_boards over a persisted index.                   *)
(*                                                                         *)
(* Encodings.  A post is a record [pid, floor].  The page script yields    *)
(* pid as a non-empty digit string or null and floor as an integer or null *)
(* (src/nga_client.py:166-191, 301): both are modelled as naturals, with   *)
(* None standing for null.  A non-empty string is truthy in Python, so a   *)
(* pid is truthy exactly when it is not None.                              *)
(***************************************************************************)
EXTENDS Integers, Sequences, FiniteSets, TLC

None == -1

\* ---------------------------------------------------------------- bounds
MaxPid == 2
MaxFloor == 1
MaxLen == 3
MaxTopk == 3
BulkSlack == 1
MaxTotal == 7
MaxSitePages == 3
PageSize == 2
MaxFails == 1
MaxBoards == 2
MaxShallow == 3
SmallLimit == 2
MaxHome == 4
MaxFid == 2
MaxCap == 2
MaxPageNo == 2
MaxStr == 3
MaxYield == 6

\* ------------------------------------------------------ program constants
DefaultTopk == 50
Sentinel == 1000000000
CONCURRENCY == 5
MAX_CHAIN_STEPS == 30
EMPTY_PAGE_STOP == 2
ContinueSpan == 30
BudgetDefault == 120000
QueryDefaultTopk == 3
NoNameScore == 1000000000
MIN_PLAUSIBLE == 5

VARIABLES
    pc,          \* position of the crawl_post call
    topk,        \* the tool's topk argument: <<>> when omitted, else <<n>>
    posts,       \* the accumulated posts list of crawl_post
    result,      \* the dictionary the tool returns
    budget,      \* overall_budget_ms (CRAWL_TIME_BUDGET_MS)
    now,         \* time.monotonic() - crawl_start, in the budget's unit
    site,        \* what the forum serves: [kind, pages, tail]
    first,       \* first["posts"]: the posts extracted from page 1
    total_pages, \* the result of _infer_total_pages
    max_pages_to_fetch,
    task,        \* page number -> "wait" | "nav" | "done": the fetch_page tasks
    res,         \* page number -> the list a finished fetch_page task returned
    sem,         \* the value of asyncio.Semaphore(CONCURRENCY)
    rng,         \* the loop of _fetch_pages_range: [page, end, empty, st]
    ch,          \* the loop of _chain_via_next: [next, visited, steps, st]
    fails,       \* navigations and extractions that have failed so far
    late,        \* the budget had run out when page 1 was in hand
    navs,        \* the page navigations crawl_post has started so far
    index,       \* the boards of the persisted index file, in file order
    name,        \* the name argument of get_board_links
    answer,      \* what query_boards returned
    file,        \* what the index file holds: a member of FileKinds
    tree,        \* what get_board_structure returned
    shallow,     \* the boards handed to build_boards_index_with_boards
    limit,       \* self.CONCURRENCY when the deep phase starts
    load,        \* position in shallow -> "skip" | "wait" | "fetch" | "done"
    dsem,        \* the value of the deep phase's asyncio.Semaphore
    results,     \* the results list of the deep phase
    home,        \* what _load_home_sections or the HTML parser returned
    max_boards,  \* the max_boards argument of build_boards_index
    built,       \* the document an index build returned
    post_url,    \* the URL handed to _build_page_url_template
    template,    \* what _build_page_url_template did: [raised, tpl]
    page_no,     \* the page number given to template.format
    page_url,    \* template.format(page_no)
    template2,   \* the template derived again from page_url
    words,       \* the three strings handed to _levenshtein
    dist,        \* the distances measured between them
    dom,         \* what the two page scripts find on the page at hand
    ext          \* the call of _extract_posts_with_fallback on that page

crawlvars == <<budget, now, site, first, total_pages, max_pages_to_fetch, task, res,
               sem, rng, ch, fails, late, navs>>
queryvars == <<index, name, answer, file, tree>>
deepvars == <<shallow, limit, load, dsem, results>>
buildvars == <<home, max_boards, built>>
urlvars == <<post_url, template, page_no, page_url, template2>>
levvars == <<words, dist>>
extvars == <<dom, ext>>
othervars == <<buildvars, urlvars, levvars, extvars>>
vars == <<pc, topk, posts, result, crawlvars, queryvars, deepvars, othervars>>

\* ---------------------------------------------------------------- helpers
Min2(a, b) == IF a <= b THEN a ELSE b
Max2(a, b) == IF a >= b THEN a ELSE b
Range(s) == {s[i] : i \in DOMAIN s}

RECURSIVE SeqsUpTo(_, _)
SeqsUpTo(S, n) ==
    IF n = 0 THEN {<<>>}
    ELSE LET shorter == SeqsUpTo(S, n - 1)
         IN shorter \cup {Append(s, x) : s \in {t \in shorter : Len(t) = n - 1}, x \in S}

Pids == {None} \cup (1 .. MaxPid)
Floors == {None} \cup (0 .. MaxFloor)
PostSet == [pid : Pids, floor : Floors]

\* A thread of n distinct posts: floors 0 .. n-1, every post with its own pid.
Thread(n) == [i \in 1 .. n |-> [pid |-> i, floor |-> i - 1]]

\* ------------------------------------------------------------- the tool
\* crawl_post(url, topk=50): an omitted topk is 50.
ToolTopk(arg) == IF arg = <<>> THEN DefaultTopk ELSE arg[1]

\* max_comments = max(0, int(topk))
MaxComments(arg) == Max2(0, ToolTopk(arg))

\* ------------------------------------------------------------ the merger
PidTruthy(pid) == pid # None

\* The de-duplication loop of crawl_post.  pid_seen, when the loop reaches posts[i],
\* holds the truthy pids of posts[1 .. i-1] (a skipped post's pid is in it already),
\* so posts[i] is skipped exactly when its pid is truthy and occurs before i.
PidSeenAt(ps, i) == {ps[j].pid : j \in {k \in 1 .. i - 1 : PidTruthy(ps[k].pid)}}

KeptKeepLast(ps) ==
    {i \in DOMAIN ps :
        ~ (PidTruthy(ps[i].pid) /\ \E j \in DOMAIN ps : j > i /\ ps[j].pid = ps[i].pid)}

\* The indices of the posts the loop appends to dedup.
Kept(ps) ==
    {i \in DOMAIN ps : ~ (PidTruthy(ps[i].pid) /\ ps[i].pid \in PidSeenAt(ps, i))}

\* dedup: the kept posts, in the order of posts.
Dedup(ps) ==
    LET K == Kept(ps)
        rank == SubSeq([i \in DOMAIN ps |-> Cardinality({j \in K : j <= i})], 1, Len(ps))
    IN [n \in 1 .. Cardinality(K) |-> ps[CHOOSE i \in K : rank[i] = n]]

FloorKeyNoneFirst(p) == IF p.floor # None THEN p.floor ELSE None

\* key=lambda x: x.get("floor") if isinstance(x.get("floor"), int) else 10 ** 9
FloorKey(p) == IF p.floor # None THEN p.floor ELSE Sentinel

\* sorted() is stable: ps[i] lands after every element with a smaller key and after
\* the elements before it with an equal key.
SortedPos(ps, i) ==
    1 + Cardinality({j \in DOMAIN ps : FloorKey(ps[j]) < FloorKey(ps[i])})
      + Cardinality({j \in 1 .. i - 1 : FloorKey(ps[j]) = FloorKey(ps[i])})

SortByFloor(ps) ==
    LET pos == SubSeq([i \in DOMAIN ps |-> SortedPos(ps, i)], 1, Len(ps))
    IN [n \in 1 .. Len(ps) |-> ps[CHOOSE i \in DOMAIN ps : pos[i] = n]]

ApplyCapAlways(ps, max_comments) == SubSeq(ps, 1, Min2(Max2(1, max_comments), Len(ps)))

\* if max_comments and max_comments > 0: posts = posts[:max_comments]
ApplyCap(ps, max_comments) ==
    IF max_comments # 0 /\ max_comments > 0
    THEN SubSeq(ps, 1, Min2(max_comments, Len(ps)))
    ELSE ps

Merge(ps, max_comments) == ApplyCap(SortByFloor(Dedup(ps)), max_comments)

\* ------------------------------------------------------------ the forum
\* kind: "pid" when the primary extraction answers (posts carry a pid), "nopid" when
\* only the fallback extraction does (pid: null).  pages: the pages that hold posts.
\* Past the last page the forum serves no post.  tail: the last page has no next
\* link ("end"), or one that leads back to page 1 ("cyc").
Sites == [kind : {"pid", "nopid"}, pages : 1 .. MaxSitePages, tail : {"end", "cyc"}]
IdleSite == [kind |-> "pid", pages |-> 1, tail |-> "end"]

PageOf(st, k) == IF k <= st.pages THEN k ELSE 0

\* The posts _extract_posts_with_fallback finds on page k: PageSize posts per page,
\* floors counted from 0 through the thread.
PageContent(st, k) ==
    LET e == PageOf(st, k)
    IN IF e = 0 THEN <<>>
       ELSE [j \in 1 .. PageSize |->
                LET fl == (e - 1) * PageSize + j - 1
                IN [pid |-> IF st.kind = "pid" THEN fl + 1 ELSE None, floor |-> fl]]

\* What _find_next_url finds on page k (0: the empty string).
NextOf(st, k) ==
    IF k < st.pages THEN k + 1 ELSE IF st.tail = "cyc" THEN 1 ELSE 0

\* -------------------------------------------------------------- the budget
\* CRAWL_TIME_BUDGET_MS through _env_ms: "0" gives 0, unset gives the default.  Time
\* is followed up to the instant the default budget has elapsed.
Budgets == {0, BudgetDefault}

OutOfBudgetNever(b, t) == FALSE

\* overall_budget_ms > 0 and (time.monotonic() - crawl_start) * 1000 >= overall_budget_ms
OutOfBudgetAt(b, t) == b > 0 /\ t >= b

OutOfBudget == OutOfBudgetAt(budget, now)

\* ------------------------------------------------------- a page navigation
GotoAndExtractRaises(ok, content) ==
    IF ok THEN [raised |-> FALSE, arr |-> content] ELSE [raised |-> TRUE, arr |-> <<>>]

\* _goto_and_extract: the posts of the page, and [] when the navigation or the
\* extraction fails (except Exception: return []).
GotoAndExtract(ok, content) ==
    IF ok THEN [raised |-> FALSE, arr |-> content] ELSE [raised |-> FALSE, arr |-> <<>>]

\* _extract_posts_with_fallback on page 1: [] when both extractions fail.
ExtractPosts(ok, content) == IF ok THEN content ELSE <<>>

\* A failure is possible while the model's count of failures allows one.
Outcomes == {TRUE} \cup (IF fails < MaxFails THEN {FALSE} ELSE {})
Failed(ok) == IF ok THEN fails ELSE fails + 1

\* The exception of a page reaches the tool's except clause.
Raised(k) == [success |-> FALSE, comments |-> <<>>, error |-> k]

\* A variant without the test that a cap was asked for.
CapReachedUnasked(ps) == Len(ps) >= MaxComments(topk)

\* if max_comments and max_comments > 0 and len(posts) >= max_comments
CapReached(ps) == MaxComments(topk) # 0 /\ MaxComments(topk) > 0 /\ Len(ps) >= MaxComments(topk)

\* (not max_comments) or len(posts) < max_comments
StillShort(ps) == MaxComments(topk) = 0 \/ Len(ps) < MaxComments(topk)

NoRange == [page |-> 0, end |-> 0, empty |-> 0, st |-> "off"]
NoChain == [next |-> 0, visited |-> {}, steps |-> 0, st |-> "off"]

\* A variant whose loop has no last page.
NewRangeOpen(start_page, end_page_inclusive) ==
    [page |-> Max2(2, start_page), end |-> Sentinel, empty |-> 0, st |-> "top"]

\* for page_num in range(max(2, start_page), max(1, end_page_inclusive) + 1)
NewRange(start_page, end_page_inclusive) ==
    [page |-> Max2(2, start_page), end |-> Max2(1, end_page_inclusive), empty |-> 0,
     st |-> "top"]

\* max_pages_to_fetch, from the posts of page 1.
PagesToFetch(fp, tp, mc) ==
    IF mc # 0 /\ mc > 0
    THEN LET first_count ==
                 Max2(0, Cardinality({i \in DOMAIN fp : fp[i].floor # None /\ fp[i].floor # 0}))
             approx_pp == Max2(1, first_count)
             need_more == mc - Len(fp)
         IN IF need_more > 0
            THEN Min2(tp, 1 + ((need_more + approx_pp - 1) \div approx_pp))
            ELSE tp
    ELSE tp

\* ------------------------------------------------------------- actions
Tick ==
    /\ pc \notin {"merge", "done", "failed"}
    /\ now < BudgetDefault
    /\ now' = BudgetDefault
    /\ UNCHANGED <<othervars, queryvars, deepvars, pc, topk, posts, result, budget, site, first, total_pages,
                   max_pages_to_fetch, task, res, sem, rng, ch, fails, late, navs>>

\* first_page.goto raises: crawl_post raises and the tool returns success False.
StartFail ==
    /\ pc = "start"
    /\ pc' = "failed"
    /\ result' = Raised(1)
    /\ navs' = navs + 1
    /\ UNCHANGED <<othervars, queryvars, deepvars, topk, posts, budget, now, site, first,
                   total_pages, max_pages_to_fetch, task, res, sem, rng, ch, fails, late>>

\* Page 1 is reached: its posts, the inferred page count and the next link; then the
\* fetch_page tasks are created (total_pages > 1) or the link chain begins.
Start ==
    /\ pc = "start"
    /\ \E tp \in 1 .. MaxTotal, ok \in Outcomes :
          LET fp == ExtractPosts(ok, PageContent(site, 1))
              mpf == PagesToFetch(fp, tp, MaxComments(topk))
          IN /\ first' = fp
             /\ posts' = fp
             /\ fails' = Failed(ok)
             /\ total_pages' = tp
             /\ late' = (budget > 0 /\ now >= budget)
             /\ navs' = navs + 1
             /\ IF tp > 1
                THEN /\ max_pages_to_fetch' = mpf
                     /\ task' = [i \in 2 .. mpf |-> "wait"]
                     /\ res' = [i \in 2 .. mpf |-> <<>>]
                     /\ sem' = CONCURRENCY
                     /\ pc' = "sweep"
                     /\ ch' = ch
                ELSE /\ ch' = [next |-> NextOf(site, 1), visited |-> {}, steps |-> 0,
                               st |-> "top"]
                     /\ pc' = "chain"
                     /\ UNCHANGED <<max_pages_to_fetch, task, res, sem>>
    /\ UNCHANGED <<othervars, queryvars, deepvars, topk, result, budget, now, site, rng>>

CanAcquireAlways(s) == TRUE

\* async with sem: a slot is free.
CanAcquire(s) == s > 0

\* fetch_page(i) passes the semaphore (waiters are woken in order), then checks the
\* budget: out of budget it returns [] and frees the slot, else it starts to navigate.
Admit(i) ==
    /\ pc = "sweep"
    /\ i \in DOMAIN task
    /\ task[i] = "wait"
    /\ \A j \in DOMAIN task : j < i => task[j] # "wait"
    /\ CanAcquire(sem)
    /\ IF OutOfBudget
       THEN /\ task' = [task EXCEPT ![i] = "done"]
            /\ sem' = sem
            /\ navs' = navs
       ELSE /\ task' = [task EXCEPT ![i] = "nav"]
            /\ sem' = sem - 1
            /\ navs' = navs + 1
    /\ UNCHANGED <<othervars, queryvars, deepvars, pc, topk, posts, result, budget, now, site, first, total_pages,
                   max_pages_to_fetch, res, rng, ch, fails, late>>

\* The navigation of fetch_page(i) ends; the slot is freed.
Complete(i) ==
    /\ pc = "sweep"
    /\ i \in DOMAIN task
    /\ task[i] = "nav"
    /\ \E ok \in Outcomes :
          LET r == GotoAndExtract(ok, PageContent(site, i))
          IN /\ fails' = Failed(ok)
             /\ sem' = sem + 1
             /\ IF r.raised
                THEN /\ pc' = "failed"
                     /\ result' = Raised(i)
                     /\ UNCHANGED <<task, res>>
                ELSE /\ task' = [task EXCEPT ![i] = "done"]
                     /\ res' = [res EXCEPT ![i] = r.arr]
                     /\ UNCHANGED <<pc, result>>
    /\ UNCHANGED <<othervars, queryvars, deepvars, topk, posts, budget, now, site, first, total_pages,
                   max_pages_to_fetch, rng, ch, late, navs>>

\* A variant that extends posts from the last task to the first.
GatheredBackwards ==
    LET G[k \in 1 .. max_pages_to_fetch] ==
            IF k = 1 THEN posts ELSE G[k - 1] \o res[max_pages_to_fetch + 2 - k]
    IN G[max_pages_to_fetch]

\* for arr in other_pages: posts.extend(arr), in the order of the tasks.
Gathered ==
    LET G[k \in 1 .. max_pages_to_fetch] ==
            IF k = 1 THEN posts ELSE G[k - 1] \o res[k]
    IN G[max_pages_to_fetch]

\* asyncio.gather returns; the continuation sweep follows if the posts are short of
\* the cap (and then only can the rescan follow).
Gather ==
    /\ pc = "sweep"
    /\ \A i \in DOMAIN task : task[i] = "done"
    /\ posts' = Gathered
    /\ task' = <<>>
    /\ res' = <<>>
    /\ IF StillShort(Gathered)
       THEN /\ pc' = "cont"
            /\ rng' = NewRange(max_pages_to_fetch + 1, max_pages_to_fetch + ContinueSpan)
       ELSE /\ pc' = "merge"
            /\ rng' = rng
    /\ UNCHANGED <<othervars, queryvars, deepvars, topk, result, budget, now, site, first, total_pages,
                   max_pages_to_fetch, sem, ch, fails, late, navs>>

\* _fetch_pages_range returns to crawl_post with the posts ps.
LeaveRange(ps) ==
    IF pc = "cont" /\ total_pages > 1 /\ StillShort(ps)
    THEN /\ pc' = "rescan"
         /\ rng' = NewRange(2, total_pages)
    ELSE /\ pc' = "merge"
         /\ rng' = NoRange

\* The head of the loop of _fetch_pages_range.
RangeTop ==
    /\ pc \in {"cont", "rescan", "seq"}
    /\ rng.st = "top"
    /\ IF rng.page > rng.end \/ OutOfBudget
       THEN LeaveRange(posts) /\ navs' = navs
       ELSE /\ rng' = [rng EXCEPT !.st = "nav"]
            /\ pc' = pc
            /\ navs' = navs + 1
    /\ UNCHANGED <<othervars, queryvars, deepvars, topk, posts, result, budget, now, site, first, total_pages,
                   max_pages_to_fetch, task, res, sem, ch, fails, late>>

\* The navigation of a page of _fetch_pages_range ends.
RangeDone ==
    /\ pc \in {"cont", "rescan", "seq"}
    /\ rng.st = "nav"
    /\ \E ok \in Outcomes :
          LET r == GotoAndExtract(ok, PageContent(site, rng.page))
              ps == posts \o r.arr
          IN /\ fails' = Failed(ok)
             /\ IF r.raised
                THEN /\ pc' = "failed"
                     /\ result' = Raised(rng.page)
                     /\ UNCHANGED <<posts, rng>>
                ELSE /\ result' = result
                     /\ posts' = ps
                     /\ IF r.arr = <<>>
                        THEN IF rng.empty + 1 >= EMPTY_PAGE_STOP
                             THEN LeaveRange(ps)
                             ELSE /\ rng' = [rng EXCEPT !.page = @ + 1, !.empty = @ + 1,
                                                        !.st = "top"]
                                  /\ pc' = pc
                        ELSE IF CapReached(ps)
                             THEN LeaveRange(ps)
                             ELSE /\ rng' = [rng EXCEPT !.page = @ + 1, !.empty = 0,
                                                        !.st = "top"]
                                  /\ pc' = pc
    /\ UNCHANGED <<othervars, queryvars, deepvars, topk, budget, now, site, first, total_pages, max_pages_to_fetch,
                   task, res, sem, ch, late, navs>>

\* _chain_via_next returns to crawl_post with the posts ps: the sequential sweep of
\* pages 2 .. MAX_CHAIN_STEPS follows if the posts are short of the cap.
LeaveChain(ps) ==
    /\ ch' = NoChain
    /\ IF StillShort(ps)
       THEN /\ pc' = "seq"
            /\ rng' = NewRange(2, MAX_CHAIN_STEPS)
       ELSE /\ pc' = "merge"
            /\ rng' = rng

\* A variant that does not look at the visited URLs.
ChainGoesOnUnvisited(c) ==
    c.next # 0 /\ c.steps < MAX_CHAIN_STEPS /\ ~ OutOfBudget

\* while next_url and steps < MAX_CHAIN_STEPS, and no break at the head:
\* if next_url in visited or out_of_budget(): break
ChainGoesOn(c) ==
    /\ c.next # 0 /\ c.steps < MAX_CHAIN_STEPS
    /\ ~ (c.next \in c.visited \/ OutOfBudget)

\* The head of the loop of _chain_via_next.
ChainTop ==
    /\ pc = "chain"
    /\ ch.st = "top"
    /\ IF ChainGoesOn(ch)
       THEN /\ ch' = [ch EXCEPT !.visited = @ \cup {ch.next}, !.steps = @ + 1,
                                !.st = "nav"]
            /\ navs' = navs + 1
            /\ UNCHANGED <<pc, rng>>
       ELSE LeaveChain(posts) /\ navs' = navs
    /\ UNCHANGED <<othervars, queryvars, deepvars, topk, posts, result, budget, now, site, first, total_pages,
                   max_pages_to_fetch, task, res, sem, fails, late>>

\* The navigation of the chain step ends: the posts are added and, short of the cap,
\* the page is opened once more to look for its next link.
ChainExtracted ==
    /\ pc = "chain"
    /\ ch.st = "nav"
    /\ \E ok \in Outcomes :
          LET r == GotoAndExtract(ok, PageContent(site, ch.next))
              ps == posts \o r.arr
          IN /\ fails' = Failed(ok)
             /\ IF r.raised
                THEN /\ pc' = "failed"
                     /\ result' = Raised(ch.next)
                     /\ UNCHANGED <<posts, ch, rng, navs>>
                ELSE /\ result' = result
                     /\ posts' = ps
                     /\ IF CapReached(ps)
                        THEN LeaveChain(ps) /\ navs' = navs
                        ELSE /\ ch' = [ch EXCEPT !.st = "lookup"]
                             /\ navs' = navs + 1
                             /\ UNCHANGED <<pc, rng>>
    /\ UNCHANGED <<othervars, queryvars, deepvars, topk, budget, now, site, first, total_pages, max_pages_to_fetch,
                   task, res, sem, late>>

\* The second navigation of the chain step ends: the next link (possibly empty), or
\* an exception, which ends the chain.
ChainLookupDone ==
    /\ pc = "chain"
    /\ ch.st = "lookup"
    /\ \E ok \in Outcomes :
          /\ fails' = Failed(ok)
          /\ IF ok
             THEN /\ ch' = [ch EXCEPT !.next = NextOf(site, ch.next), !.st = "top"]
                  /\ UNCHANGED <<pc, rng>>
             ELSE LeaveChain(posts)
    /\ UNCHANGED <<othervars, queryvars, deepvars, topk, posts, result, budget, now, site, first, total_pages,
                   max_pages_to_fetch, task, res, sem, late, navs>>

\* The tail of crawl_post: de-duplicate, sort, cap, return.
Finish ==
    /\ pc = "merge"
    /\ result' = [success |-> TRUE,
                  comments |-> Merge(posts, MaxComments(topk)),
                  error |-> 0]
    /\ pc' = "done"
    /\ UNCHANGED <<othervars, queryvars, deepvars, topk, posts, crawlvars>>

TopkArgs == {<<>>} \cup {<<n>> : n \in -1 .. MaxTopk}
NoResult == [success |-> FALSE, comments |-> <<>>, error |-> 0]

NoAnswer == [success |-> FALSE, query_type |-> "", results |-> <<>>, scored |-> FALSE]

\* No query has been made and no index build is under way.
NoTree == [success |-> FALSE, error |-> "", raised |-> FALSE]

IdleQuery ==
    /\ index = <<>>
    /\ name = <<>>
    /\ answer = NoAnswer
    /\ file = "absent"
    /\ tree = NoTree

NoDocument == [generated_at |-> 0, boards |-> <<>>]

IdleBuild ==
    /\ home = <<>>
    /\ max_boards = None
    /\ built = NoDocument

NoDistances == [aa |-> 0, ae |-> 0, ab |-> 0, ba |-> 0, bc |-> 0, ac |-> 0]
NoDom == [primary |-> 0, primary_ok |-> TRUE, fallback |-> 0, fallback_ok |-> TRUE]
NoExtraction == [primary |-> <<>>, fallback |-> <<>>, ran_fallback |-> FALSE,
                 returned |-> <<>>, raised |-> FALSE]
IdleExt ==
    /\ dom = NoDom
    /\ ext = NoExtraction

IdleLev ==
    /\ words = <<>>
    /\ dist = NoDistances

IdleUrl ==
    /\ post_url = [scheme |-> "", netloc |-> "", path |-> "", params |-> "",
                   query |-> <<>>, fragment |-> ""]
    /\ template = [raised |-> FALSE, tpl |-> post_url]
    /\ page_no = 0
    /\ page_url = post_url
    /\ template2 = template

IdleDeep ==
    /\ shallow = <<>>
    /\ limit = CONCURRENCY
    /\ load = <<>>
    /\ dsem = 0
    /\ results = <<>>

Idle ==
    /\ result = NoResult
    /\ now = 0
    /\ first = <<>>
    /\ total_pages = 0
    /\ max_pages_to_fetch = 0
    /\ task = <<>>
    /\ res = <<>>
    /\ sem = CONCURRENCY
    /\ rng = NoRange
    /\ ch = NoChain
    /\ fails = 0
    /\ late = FALSE
    /\ navs = 0

\* The tool is called: any topk, any budget, any forum.
Init ==
    /\ pc = "start"
    /\ topk \in TopkArgs
    /\ budget \in Budgets
    /\ site \in Sites
    /\ posts = <<>>
    /\ Idle
    /\ IdleQuery
    /\ IdleDeep
    /\ IdleBuild
    /\ IdleUrl
    /\ IdleLev
    /\ IdleExt

Next ==
    \/ Tick
    \/ StartFail
    \/ Start
    \/ \E i \in 2 .. MaxTotal : Admit(i)
    \/ \E i \in 2 .. MaxTotal : Complete(i)
    \/ Gather
    \/ RangeTop
    \/ RangeDone
    \/ ChainTop
    \/ ChainExtracted
    \/ ChainLookupDone
    \/ Finish

Spec == Init /\ [][Next]_vars

\* The merger alone: any short accumulated list, or a long thread of distinct posts.
InitMerge ==
    /\ pc = "merge"
    /\ topk \in TopkArgs
    /\ posts \in SeqsUpTo(PostSet, MaxLen)
                  \cup {Thread(n) : n \in DefaultTopk - 1 .. DefaultTopk + BulkSlack}
    /\ budget = 0
    /\ site = IdleSite
    /\ Idle
    /\ IdleQuery
    /\ IdleDeep
    /\ IdleBuild
    /\ IdleUrl
    /\ IdleLev
    /\ IdleExt

NextMerge == Finish

SpecMerge == InitMerge /\ [][NextMerge]_vars

\* ============================================================ query_boards
\* Text is a sequence of code points, so that str.strip, str.lower, the `in`
\* test, the edit distance and the ordering of strings are all computed.
\* "a" = <<97>>, "A" = <<65>>, "b" = <<98>>, "c" = <<99>>, " " = <<32>>.

IsSpace(c) == c = 32
LowerChar(c) == IF c \in 65 .. 90 THEN c + 32 ELSE c

\* s.strip(): s without its leading and trailing whitespace.
Strip(s) ==
    LET keep == {i \in DOMAIN s : ~IsSpace(s[i])}
    IN IF keep = {} THEN <<>>
       ELSE SubSeq(s, CHOOSE i \in keep : \A j \in keep : i <= j,
                      CHOOSE i \in keep : \A j \in keep : i >= j)

\* s.lower()
StrLower(s) == [i \in DOMAIN s |-> LowerChar(s[i])]

\* str(x).strip().lower()
Norm(s) == StrLower(Strip(s))

\* a in b, for two strings: a is a contiguous part of b.
In(a, b) == \E i \in 0 .. Len(b) - Len(a) : SubSeq(b, i + 1, i + Len(a)) = a

\* a < b, for two strings: Python orders strings by code point.
StrLess(a, b) ==
    \/ Len(a) < Len(b) /\ SubSeq(b, 1, Len(a)) = a
    \/ \E i \in 1 .. Min2(Len(a), Len(b)) :
            /\ SubSeq(a, 1, i - 1) = SubSeq(b, 1, i - 1)
            /\ a[i] < b[i]

Min3(x, y, z) == Min2(x, Min2(y, z))
MinOf(S) == CHOOSE x \in S : \A y \in S : x <= y

\* _levenshtein: one row dp[0..lb], overwritten in place for each i; prev
\* holds the value dp[j-1] had before row i overwrote it.
RECURSIVE LevRow(_, _, _, _, _, _)
LevRow(a, b, i, j, dp, prev) ==
    IF j > Len(b) THEN dp
    ELSE LET cur == dp[j]
             cost == IF a[i] = b[j] THEN 0 ELSE 1
         IN LevRow(a, b, i, j + 1,
                   [dp EXCEPT ![j] = Min3(dp[j] + 1, dp[j - 1] + 1, prev + cost)],
                   cur)

RECURSIVE LevRows(_, _, _, _)
LevRows(a, b, i, dp) ==
    IF i > Len(a) THEN dp
    ELSE LevRows(a, b, i + 1, LevRow(a, b, i, 1, [dp EXCEPT ![0] = i], dp[0]))

\* A variant that only counts the difference of the lengths.
LevenshteinLengths(a, b) ==
    IF Len(a) > Len(b) THEN Len(a) - Len(b) ELSE Len(b) - Len(a)

Levenshtein(a, b) ==
    IF Len(a) = 0 THEN Len(b)
    ELSE IF Len(b) = 0 THEN Len(a)
    ELSE LevRows(a, b, 1, [j \in 0 .. Len(b) |-> j])[Len(b)]

\* The candidate strings of _score_board: the non-empty normalised names of
\* the board, of its forums and of its collections.
Candidates(board) ==
    LET all == <<Norm(board.name)>>
               \o [i \in DOMAIN board.forums |-> Norm(board.forums[i])]
               \o [i \in DOMAIN board.collections |-> Norm(board.collections[i])]
    IN {all[i] : i \in {j \in DOMAIN all : all[j] # <<>>}}

\* A variant that looks at the board's own name only.
ScoreBoardOwnName(board, needle) ==
    IF Norm(board.name) = <<>> THEN NoNameScore
    ELSE Levenshtein(needle, Norm(board.name))

ScoreBoard(board, needle) ==
    IF Candidates(board) = {} THEN NoNameScore
    ELSE MinOf({Levenshtein(needle, x) : x \in Candidates(board)})

\* A variant that tests category_l1 only.
CategoryMatchL1Only(board, needle) ==
    LET category_l1 == Norm(board.category_l1)
    IN In(needle, category_l1) \/ In(category_l1, needle)

\* The test of _query_by_category on one board.
CategoryMatch(board, needle) ==
    LET category_l1 == Norm(board.category_l1)
        category_l2 == Norm(board.category_l2)
    IN \/ In(needle, category_l1) \/ In(category_l1, needle)
       \/ /\ category_l2 # <<>>
          /\ In(needle, category_l2) \/ In(category_l2, needle)

QueryByCategory(boards, needle) ==
    LET hit == {i \in DOMAIN boards : CategoryMatch(boards[i], needle)}
        rank == [i \in hit |-> Cardinality({j \in hit : j <= i})]
    IN [n \in 1 .. Cardinality(hit) |-> boards[CHOOSE i \in hit : rank[i] = n]]

\* scored.sort(key = (score, str(name))): ascending and stable.
SortScored(boards, needle) ==
    LET score == [i \in DOMAIN boards |-> ScoreBoard(boards[i], needle)]
        Before(i, j) == \/ score[i] < score[j]
                        \/ score[i] = score[j] /\ StrLess(boards[i].name, boards[j].name)
        Same(i, j) == score[i] = score[j] /\ boards[i].name = boards[j].name
        pos == [i \in DOMAIN boards |->
                   1 + Cardinality({j \in DOMAIN boards : Before(j, i)})
                     + Cardinality({j \in DOMAIN boards : j < i /\ Same(j, i)})]
    IN [n \in 1 .. Len(boards) |-> boards[CHOOSE i \in DOMAIN boards : pos[i] = n]]

QueryBoards(boards, nm, k) ==
    LET needle == Norm(nm)
        category_results == QueryByCategory(boards, needle)
    IN IF category_results # <<>>
       THEN [success |-> TRUE, query_type |-> "category",
             results |-> category_results, scored |-> FALSE]
       ELSE LET scored == SortScored(boards, needle)
            IN [success |-> TRUE, query_type |-> "fuzzy",
                results |-> SubSeq(scored, 1, Min2(Max2(1, k), Len(scored))),
                scored |-> TRUE]

\* get_board_links(name, topk = 3) hands max(1, int(topk)) to query_boards.
QueryTopk(arg) == Max2(1, IF arg = <<>> THEN QueryDefaultTopk ELSE arg[1])

\* What the index file may hold: nothing (no file at any candidate path),
\* text that json.load rejects, the JSON value null, a non-empty JSON array,
\* or an index document.
FileKinds == {"absent", "garbled", "null", "array", "index"}

\* {"success": False, "error": "index_not_found_or_invalid", ...}
IndexNotFound ==
    [success |-> FALSE, query_type |-> "", results |-> <<>>, scored |-> FALSE,
     error |-> "index_not_found_or_invalid", raised |-> FALSE]

\* The call left with an exception instead of returning a dictionary.
Uncaught(e) ==
    [success |-> FALSE, query_type |-> "", results |-> <<>>, scored |-> FALSE,
     error |-> e, raised |-> TRUE]

\* boards = list((index or {}).get("boards", []) or []): null counts as an
\* empty document.
BoardsOf(kind, boards) == IF kind = "index" THEN boards ELSE <<>>

\* query_boards from the search for the file to the answer.
QueryBoardsFile(kind, boards, nm, k) ==
    IF kind \in {"absent", "garbled"} THEN IndexNotFound
    ELSE IF kind = "array" THEN Uncaught("AttributeError")
    ELSE QueryBoards(BoardsOf(kind, boards), nm, k)

GetBoardLinks ==
    /\ pc = "query"
    /\ answer' = QueryBoardsFile(file, index, name, QueryTopk(topk))
    /\ pc' = "answered"
    /\ UNCHANGED <<othervars, topk, posts, result, crawlvars, index, name, file, tree, deepvars>>

\* "(未分组)" and "_direct_boards"
Ungrouped == <<40, 26410, 20998, 32452, 41>>
DirectBoards == <<95, 100, 105, 114, 101, 99, 116, 95, 98, 111, 97, 114, 100, 115>>

StructureKey1(b) ==
    LET category_l1 == Strip(b.category_l1)
    IN IF category_l1 # <<>> THEN category_l1 ELSE Ungrouped
StructureKey2(b) ==
    LET category_l2 == Strip(b.category_l2)
    IN IF category_l2 # <<>> THEN category_l2 ELSE DirectBoards

\* The entry appended for a board; the boards of the model carry no
\* description, so board.get("description", "") is "".
StructureEntry(b) == [name |-> Strip(b.name), fid |-> b.fid, description |-> <<>>]

\* A variant that files every board under its category_l2 key only when the
\* key is new, so that later boards of a bucket are lost.
BucketFirstOnly(boards, c1, c2) ==
    LET in == {i \in DOMAIN boards :
                  StructureKey1(boards[i]) = c1 /\ StructureKey2(boards[i]) = c2}
    IN <<StructureEntry(boards[CHOOSE i \in in : \A j \in in : i <= j])>>

\* structure[c1][c2]: the entries of the boards with these keys, in index order.
Bucket(boards, c1, c2) ==
    LET in == {i \in DOMAIN boards :
                  StructureKey1(boards[i]) = c1 /\ StructureKey2(boards[i]) = c2}
        rank == [i \in in |-> Cardinality({j \in in : j <= i})]
    IN [n \in 1 .. Cardinality(in) |->
           StructureEntry(boards[CHOOSE i \in in : rank[i] = n])]

Structure(boards) ==
    [c1 \in {StructureKey1(boards[i]) : i \in DOMAIN boards} |->
        [c2 \in {StructureKey2(boards[i]) :
                    i \in {j \in DOMAIN boards : StructureKey1(boards[j]) = c1}} |->
            Bucket(boards, c1, c2)]]

\* get_board_structure from the search for the file to the answer.  With
\* null in the file, index.get("generated_at", "") is called on None.
GetBoardStructureFile(kind, boards) ==
    IF kind \in {"absent", "garbled"}
    THEN [success |-> FALSE, error |-> "index_not_found_or_invalid", raised |-> FALSE]
    ELSE IF kind \in {"array", "null"}
    THEN [success |-> FALSE, error |-> "AttributeError", raised |-> TRUE]
    ELSE [success |-> TRUE, structure |-> Structure(boards),
          total_categories |-> Cardinality(DOMAIN Structure(boards))]

GetBoardStructure ==
    /\ pc = "query"
    /\ tree' = GetBoardStructureFile(file, index)
    /\ pc' = "structured"
    /\ UNCHANGED <<othervars, topk, posts, result, crawlvars, index, name, answer, file, deepvars>>

\* The boards an index may hold.  Boards that differ in their categories,
\* and boards of one category that differ in their names and children.
CategoryShapes ==
    [name : {<<97>>}, category_l1 : {<<>>, <<65>>, <<99>>},
     category_l2 : {<<>>, <<98>>}, forums : {<<>>}, collections : {<<>>}]
NameShapes ==
    [name : {<<>>, <<97>>, <<65, 98>>}, category_l1 : {<<99>>},
     category_l2 : {<<>>}, forums : {<<>>, << <<97, 98>> >>},
     collections : {<<>>, << <<97>> >>}]
BoardShapes == CategoryShapes \cup NameShapes

\* The boards of an index file carry distinct fids (the builders drop repeats).
WithFids(s) ==
    [i \in DOMAIN s |-> [fid |-> i, name |-> s[i].name,
                         category_l1 |-> s[i].category_l1,
                         category_l2 |-> s[i].category_l2,
                         forums |-> s[i].forums, collections |-> s[i].collections]]

\* "炉石传说" and "魔兽世界", both in the category "游戏", and the query "炉石".
Hearthstone == <<28809, 30707, 20256, 35828>>
Warcraft == <<39764, 20861, 19990, 30028>>
Games == <<28216, 25103>>
HearthQuery == <<28809, 30707>>
GameBoard(nm) ==
    [name |-> nm, category_l1 |-> Games, category_l2 |-> <<>>,
     forums |-> <<>>, collections |-> <<>>]
GameIndexes ==
    {WithFids(<<GameBoard(Hearthstone), GameBoard(Warcraft)>>),
     WithFids(<<GameBoard(Warcraft), GameBoard(Hearthstone)>>)}

\* Two boards of "游戏" and one of "生活".
Life == <<29983, 27963>>
LifeBoard(nm) ==
    [name |-> nm, category_l1 |-> Life, category_l2 |-> <<>>,
     forums |-> <<>>, collections |-> <<>>]
GameLifeIndexes ==
    {WithFids(<<GameBoard(Hearthstone), LifeBoard(<<97>>), GameBoard(Warcraft)>>)}

Indexes ==
    {WithFids(s) : s \in SeqsUpTo(BoardShapes, MaxBoards)}
        \cup GameIndexes \cup GameLifeIndexes

\* "", "a", "B ", "ab", "炉石"
Queries == {<<>>, <<97>>, <<66, 32>>, <<97, 98>>, HearthQuery}

InitQuery ==
    /\ pc = "query"
    /\ topk \in TopkArgs
    /\ \/ file = "index" /\ index \in Indexes
       \/ file \in FileKinds \ {"index"} /\ index = <<>>
    /\ name \in Queries
    /\ answer = NoAnswer
    /\ tree = NoTree
    /\ posts = <<>>
    /\ budget = 0
    /\ site = IdleSite
    /\ Idle
    /\ IdleDeep
    /\ IdleBuild
    /\ IdleUrl
    /\ IdleLev
    /\ IdleExt

NextQuery == GetBoardLinks \/ GetBoardStructure

SpecQuery == InitQuery /\ [][NextQuery]_vars

\* ======================================== build_boards_index_with_boards
\* A shallow board is [fid, url]: url tells whether the board carries a url.
\* The children a board page yields stand as <<fid>>; a failed fetch gives
\* none.
ShallowIndexes ==
    {[i \in DOMAIN s |-> [fid |-> i, url |-> s[i]]] : s \in SeqsUpTo(BOOLEAN, MaxShallow)}

\* boards_index_tool assigns its configured CONCURRENCY to the client before
\* the deep phase; the class default is CONCURRENCY.
Limits == {SmallLimit, CONCURRENCY}

\* A variant that hands out one permit more than the limit.
DeepSemaphoreLoose(c) == c + 1

\* asyncio.Semaphore(self.CONCURRENCY)
DeepSemaphore(c) == c

\* The dictionary load_one returns.
LoadOne(b, ok) == [fid |-> b.fid, children |-> IF ok THEN <<b.fid>> ELSE <<>>]

\* A variant in which a failed fetch loses its board.
CollectUnlessFailed(rs, b, ok) == IF ok THEN Append(rs, LoadOne(b, ok)) ELSE rs

\* res = await fut; results.append(res): load_one has caught any failure of
\* the fetch, so the awaited task always yields a dictionary.
Collect(rs, b, ok) == Append(rs, LoadOne(b, ok))

\* tasks = [load_one(b) for b in boards if b and b.get("url")]
DeepStart ==
    /\ pc = "deep"
    /\ load' = [i \in DOMAIN shallow |-> IF shallow[i].url THEN "wait" ELSE "skip"]
    /\ dsem' = DeepSemaphore(limit)
    /\ results' = <<>>
    /\ pc' = "loading"
    /\ UNCHANGED <<othervars, topk, posts, result, crawlvars, queryvars, shallow, limit>>

\* A task enters `async with sem`.  as_completed schedules the tasks from a
\* set, so the tasks reach the semaphore in no particular order.
LoadAdmit(i) ==
    /\ pc = "loading"
    /\ i \in DOMAIN load
    /\ load[i] = "wait"
    /\ CanAcquire(dsem)
    /\ load' = [load EXCEPT ![i] = "fetch"]
    /\ dsem' = dsem - 1
    /\ UNCHANGED <<othervars, pc, topk, posts, result, crawlvars, queryvars, shallow, limit, results>>

\* _load_board_children returns, or raises and load_one falls back to no
\* children; the task leaves the semaphore and as_completed yields it.
LoadDone(i) ==
    /\ pc = "loading"
    /\ i \in DOMAIN load
    /\ load[i] = "fetch"
    /\ \E ok \in BOOLEAN : results' = Collect(results, shallow[i], ok)
    /\ load' = [load EXCEPT ![i] = "done"]
    /\ dsem' = dsem + 1
    /\ UNCHANGED <<othervars, pc, topk, posts, result, crawlvars, queryvars, shallow, limit>>

\* Every task has been yielded: the result is assembled and saved.
DeepSave ==
    /\ pc = "loading"
    /\ \A i \in DOMAIN load : load[i] \in {"skip", "done"}
    /\ pc' = "saved"
    /\ UNCHANGED <<othervars, topk, posts, result, crawlvars, queryvars, deepvars>>

InitDeep ==
    /\ pc = "deep"
    /\ topk = <<>>
    /\ posts = <<>>
    /\ budget = 0
    /\ site = IdleSite
    /\ Idle
    /\ IdleQuery
    /\ IdleBuild
    /\ IdleUrl
    /\ IdleLev
    /\ IdleExt
    /\ shallow \in ShallowIndexes
    /\ limit \in Limits
    /\ load = <<>>
    /\ dsem = 0
    /\ results = <<>>

NextDeep ==
    \/ DeepStart
    \/ \E i \in 1 .. MaxShallow : LoadAdmit(i)
    \/ \E i \in 1 .. MaxShallow : LoadDone(i)
    \/ DeepSave

SpecDeep == InitDeep /\ [][NextDeep]_vars

\* ======================================================= build_boards_index
\* An entry the landing page (or the HTML parser) yields is [name, url, fid,
\* description]; name and url stand as the entry's position, fid as a
\* natural, None for an empty fid.
HomeFids == {None} \cup (1 .. MaxFid)
HomeLists ==
    {[i \in DOMAIN s |-> [name |-> i, url |-> i, fid |-> s[i], description |-> <<>>]] :
        s \in SeqsUpTo(HomeFids, MaxHome)}
MaxBoardsArgs == {None} \cup (-1 .. MaxCap)

FidTruthy(fid) == fid # None

\* A variant that keeps the last entry of each fid.
UniqueIndexesKeepLast(hs) ==
    {i \in DOMAIN hs : FidTruthy(hs[i].fid)
                        /\ \A j \in DOMAIN hs : j > i => hs[j].fid # hs[i].fid}

\* The positions the loop over home_boards keeps: fid not empty and not seen.
UniqueIndexes(hs) ==
    {i \in DOMAIN hs : FidTruthy(hs[i].fid)
                        /\ \A j \in DOMAIN hs : j < i => hs[j].fid # hs[i].fid}

UniqueBoards(hs) ==
    LET K == UniqueIndexes(hs)
        rank == [i \in K |-> Cardinality({j \in K : j <= i})]
    IN [n \in 1 .. Cardinality(K) |-> hs[CHOOSE i \in K : rank[i] = n]]

\* if max_boards and max_boards > 0: unique_boards = unique_boards[:max_boards]
CapBoards(bs, mb) ==
    IF mb # None /\ mb # 0 /\ mb > 0 THEN SubSeq(bs, 1, Min2(mb, Len(bs))) ELSE bs

\* The dictionary build_boards_index writes for a board.
ShallowBoard(b) ==
    [name |-> b.name, url |-> b.url, fid |-> b.fid, description |-> b.description,
     category_l1 |-> <<>>, category_l2 |-> <<>>, forums |-> <<>>, collections |-> <<>>]

\* The dictionary build_boards_index_from_html writes for a board.
HtmlBoard(b) ==
    [name |-> b.name, url |-> b.url, fid |-> b.fid, description |-> <<>>,
     forums |-> <<>>, collections |-> <<>>]

\* with open(save_path, "w") as f: json.dump(result, f): the document replaces
\* what the file held; when the write raises, the exception is logged and the
\* file is left as it was.
SaveIndex(doc) ==
    \/ file' = "index" /\ index' = doc.boards
    \/ UNCHANGED <<file, index>>

BuildBoardsIndex ==
    /\ pc = "build"
    /\ built' = [generated_at |-> 1,
                 boards |-> LET bs == CapBoards(UniqueBoards(home), max_boards)
                            IN [n \in DOMAIN bs |-> ShallowBoard(bs[n])]]
    /\ SaveIndex(built')
    /\ pc' = "built"
    /\ UNCHANGED <<topk, posts, result, crawlvars, name, answer, tree, deepvars, urlvars,
                   extvars, levvars, home, max_boards>>

BuildBoardsIndexFromHtml ==
    /\ pc = "build"
    /\ built' = [generated_at |-> 1,
                 boards |-> LET bs == UniqueBoards(home)
                            IN [n \in DOMAIN bs |-> HtmlBoard(bs[n])]]
    /\ SaveIndex(built')
    /\ pc' = "built_from_html"
    /\ UNCHANGED <<topk, posts, result, crawlvars, name, answer, tree, deepvars, urlvars,
                   extvars, levvars, home, max_boards>>

\* The boards an earlier build left in the file at save_path.
PersistedBefore ==
    <<ShallowBoard([name |-> 1, url |-> 1, fid |-> 1, description |-> <<>>])>>

InitBuild ==
    /\ pc = "build"
    /\ topk = <<>>
    /\ posts = <<>>
    /\ budget = 0
    /\ site = IdleSite
    /\ Idle
    /\ name = <<>>
    /\ answer = NoAnswer
    /\ tree = NoTree
    /\ \/ file = "absent" /\ index = <<>>
       \/ file = "index" /\ index = PersistedBefore
    /\ IdleDeep
    /\ IdleUrl
    /\ IdleLev
    /\ IdleExt
    /\ home \in HomeLists
    /\ max_boards \in MaxBoardsArgs
    /\ built = NoDocument

NextBuild == BuildBoardsIndex \/ BuildBoardsIndexFromHtml

SpecBuild == InitBuild /\ [][NextBuild]_vars

\* ================================================ _build_page_url_template
\* A URL is the six components urlparse splits it into; scheme, netloc,
\* path, params and fragment are kept whole, the query is the sequence of
\* its key=value pairs, each value a text (code points) as written in the
\* URL.  "{" = 123, "}" = 125, "%7B" = <<37, 55, 66>>, "%7D" = <<37, 55, 68>>,
\* "+" = 43, "-" = 45, " " = 32, digits are 48 .. 57.

\* urllib's unquoting of a query value: "+" is a space, %7B and %7D braces.
RECURSIVE Unquote(_)
Unquote(t) ==
    IF t = <<>> THEN <<>>
    ELSE IF Len(t) >= 3 /\ SubSeq(t, 1, 3) = <<37, 55, 66>>
         THEN <<123>> \o Unquote(SubSeq(t, 4, Len(t)))
    ELSE IF Len(t) >= 3 /\ SubSeq(t, 1, 3) = <<37, 55, 68>>
         THEN <<125>> \o Unquote(SubSeq(t, 4, Len(t)))
    ELSE IF Head(t) = 43 THEN <<32>> \o Unquote(Tail(t))
    ELSE <<Head(t)>> \o Unquote(Tail(t))

\* urllib's quoting (quote_plus) of a value, as urlencode applies it.
RECURSIVE QuotePlus(_)
QuotePlus(t) ==
    IF t = <<>> THEN <<>>
    ELSE (CASE Head(t) = 123 -> <<37, 55, 66>>
            [] Head(t) = 125 -> <<37, 55, 68>>
            [] Head(t) = 32 -> <<43>>
            [] Head(t) = 43 -> <<37, 50, 66>>
            [] OTHER -> <<Head(t)>>) \o QuotePlus(Tail(t))

\* parse_qs: the keys in order of first appearance, each with the list of
\* its unquoted values; pairs with a blank value are left out.
ParseQs(query) ==
    LET live == {i \in DOMAIN query : query[i].v # <<>>}
        firsts == {i \in live : \A j \in live : j < i => query[j].k # query[i].k}
        rank == [i \in firsts |-> Cardinality({j \in firsts : j <= i})]
        ValuesOf(key) ==
            LET mine == {i \in live : query[i].k = key}
                r == [i \in mine |-> Cardinality({j \in mine : j <= i})]
            IN [n \in 1 .. Cardinality(mine) |->
                   Unquote(query[CHOOSE i \in mine : r[i] = n].v)]
    IN [n \in 1 .. Cardinality(firsts) |->
           LET key == query[CHOOSE i \in firsts : rank[i] = n].k
           IN [k |-> key, vals |-> ValuesOf(key)]]

\* qs.get(key) or []
QsGet(qs, key) ==
    IF \E n \in DOMAIN qs : qs[n].k = key
    THEN qs[CHOOSE n \in DOMAIN qs : qs[n].k = key].vals
    ELSE <<>>

IsDigit(c) == c \in 48 .. 57

RECURSIVE DigitsValue(_)
DigitsValue(t) ==
    IF t = <<>> THEN 0 ELSE 10 * DigitsValue(SubSeq(t, 1, Len(t) - 1)) + (t[Len(t)] - 48)

\* int(str(v).strip()): [ok, n]; ok is FALSE where int raises ValueError.
IntOf(v) ==
    LET t == Strip(v)
        signed == t # <<>> /\ t[1] \in {43, 45}
        digits == IF signed THEN Tail(t) ELSE t
    IN IF digits # <<>> /\ \A i \in DOMAIN digits : IsDigit(digits[i])
       THEN [ok |-> TRUE,
             n |-> IF signed /\ t[1] = 45 THEN 0 - DigitsValue(digits)
                   ELSE DigitsValue(digits)]
       ELSE [ok |-> FALSE, n |-> 0]

\* str(n) of an integer.
RECURSIVE DecNat(_)
DecNat(n) == IF n < 10 THEN <<48 + n>> ELSE DecNat(n \div 10) \o <<48 + (n % 10)>>
Dec(n) == IF n < 0 THEN <<45>> \o DecNat(0 - n) ELSE DecNat(n)

Placeholder == <<123, 125>>

\* A variant that writes the placeholder the way urlencode would.
TidQueryQuoted(tid) ==
    <<[k |-> "tid", v |-> Dec(tid)], [k |-> "page", v |-> QuotePlus(Placeholder)]>>

\* f"tid={tid}&page={{}}"
TidQuery(tid) ==
    <<[k |-> "tid", v |-> Dec(tid)], [k |-> "page", v |-> Placeholder]>>

\* qs["page"] = ["{}"]: an existing key keeps its place, a new one goes last.
SetPage(qs) ==
    IF \E n \in DOMAIN qs : qs[n].k = "page"
    THEN [n \in DOMAIN qs |->
             IF qs[n].k = "page" THEN [k |-> "page", vals |-> <<Placeholder>>] ELSE qs[n]]
    ELSE Append(qs, [k |-> "page", vals |-> <<Placeholder>>])

\* urlencode({k: v[0] for k, v in qs.items() if v})
UrlEncode(qs) == [n \in DOMAIN qs |-> [k |-> qs[n].k, v |-> QuotePlus(qs[n].vals[1])]]

\* urlunparse puts a "/" between a netloc and a path that lacks one.
Slashed(path) == IF path = "read.php" THEN "/read.php" ELSE path
Unparse(u) ==
    IF u.netloc # "" /\ u.path # "" THEN [u EXCEPT !.path = Slashed(u.path)] ELSE u

\* urlparse raises ValueError on a netloc with an unmatched bracket.
Malformed(u) == u.netloc = "[bad"

\* _build_page_url_template: [raised, tpl]
BuildPageUrlTemplate(u) ==
    IF Malformed(u) THEN [raised |-> TRUE, tpl |-> u]
    ELSE LET qs == ParseQs(u.query)
             tid_vals == QsGet(qs, "tid")
         IN IF tid_vals # <<>> /\ IntOf(tid_vals[1]).ok
            THEN [raised |-> FALSE,
                  tpl |-> Unparse([scheme |-> IF u.scheme # "" THEN u.scheme ELSE "https",
                                   netloc |-> IF u.netloc # "" THEN u.netloc ELSE "bbs.nga.cn",
                                   path |-> IF u.path # "" THEN u.path ELSE "/read.php",
                                   params |-> "",
                                   query |-> TidQuery(IntOf(tid_vals[1]).n),
                                   fragment |-> ""])]
            ELSE [raised |-> FALSE,
                  tpl |-> Unparse([u EXCEPT !.query = UrlEncode(SetPage(qs))])]

\* The text with every "{}" replaced by the decimal digits of k.
RECURSIVE FormatText(_, _)
FormatText(t, k) ==
    IF t = <<>> THEN <<>>
    ELSE IF Len(t) >= 2 /\ SubSeq(t, 1, 2) = Placeholder
         THEN Dec(k) \o FormatText(SubSeq(t, 3, Len(t)), k)
    ELSE <<Head(t)>> \o FormatText(Tail(t), k)

\* template.format(k)
Format(tpl, k) ==
    [tpl EXCEPT !.query = [n \in DOMAIN tpl.query |->
                              [k |-> tpl.query[n].k, v |-> FormatText(tpl.query[n].v, k)]]]

\* The URLs handed to crawl_post.
UrlBases ==
    {[scheme |-> "https", netloc |-> "bbs.nga.cn", path |-> "/read.php"],
     [scheme |-> "https", netloc |-> "bbs.nga.cn", path |-> ""],
     [scheme |-> "", netloc |-> "", path |-> "read.php"],
     [scheme |-> "http", netloc |-> "[bad", path |-> "/read.php"]}
\* tid: none, "", "7", "007", "-5", "+7" (a space and 7), "ab"
TidTexts == {<<>>, <<55>>, <<48, 48, 55>>, <<45, 53>>, <<43, 55>>, <<97, 98>>}
\* page: none or "3";  x: none, "1" or "{}"
PageTexts == {<<>>, <<51>>}
OtherTexts == {<<>>, <<49>>, <<123, 125>>}
Param(key, text) == IF text = <<>> THEN <<>> ELSE <<[k |-> key, v |-> text]>>
BlankTid == <<[k |-> "tid", v |-> <<>>]>>
Queries3 ==
    {Param("tid", t) \o Param("page", p) \o Param("x", x) :
        t \in TidTexts, p \in PageTexts, x \in OtherTexts}
    \cup {Param("x", x) \o Param("page", p) \o Param("tid", t) :
            t \in TidTexts, p \in PageTexts, x \in OtherTexts}
    \cup {BlankTid \o Param("page", p) : p \in PageTexts}
PostUrls ==
    {[scheme |-> b.scheme, netloc |-> b.netloc, path |-> b.path, params |-> "",
      query |-> q, fragment |-> f] : b \in UrlBases, q \in Queries3, f \in {"", "top"}}

NoUrl == [scheme |-> "", netloc |-> "", path |-> "", params |-> "", query |-> <<>>,
          fragment |-> ""]
NoTemplate == [raised |-> FALSE, tpl |-> NoUrl]

\* template = _build_page_url_template(post_url)
DeriveTemplate ==
    /\ pc = "url"
    /\ template' = BuildPageUrlTemplate(post_url)
    /\ pc' = IF Malformed(post_url) THEN "url_raised" ELSE "derived"
    /\ UNCHANGED <<topk, posts, result, crawlvars, queryvars, deepvars, buildvars, levvars,
                   extvars,
                   post_url, page_no, page_url, template2>>

\* url = template.format(page_num)
Instantiate(k) ==
    /\ pc = "derived"
    /\ page_no' = k
    /\ page_url' = Format(template.tpl, k)
    /\ pc' = "instantiated"
    /\ UNCHANGED <<topk, posts, result, crawlvars, queryvars, deepvars, buildvars, levvars,
                   extvars,
                   post_url, template, template2>>

\* The page URL is itself handed to _build_page_url_template.
Rederive ==
    /\ pc = "instantiated"
    /\ template2' = BuildPageUrlTemplate(page_url)
    /\ pc' = "rederived"
    /\ UNCHANGED <<topk, posts, result, crawlvars, queryvars, deepvars, buildvars, levvars,
                   extvars,
                   post_url, template, page_no, page_url>>

InitUrl ==
    /\ pc = "url"
    /\ topk = <<>>
    /\ posts = <<>>
    /\ budget = 0
    /\ site = IdleSite
    /\ Idle
    /\ IdleQuery
    /\ IdleDeep
    /\ IdleBuild
    /\ IdleLev
    /\ IdleExt
    /\ post_url \in PostUrls
    /\ template = NoTemplate
    /\ page_no = 0
    /\ page_url = NoUrl
    /\ template2 = NoTemplate

NextUrl ==
    \/ DeriveTemplate
    \/ \E k \in 1 .. MaxPageNo : Instantiate(k)
    \/ Rederive

SpecUrl == InitUrl /\ [][NextUrl]_vars

\* ============================================================ _levenshtein
\* Every string over the alphabet of length at most MaxStr.
Alphabet == {97, 98}
StringsOf(n) == UNION {[1 .. m -> Alphabet] : m \in 0 .. n}
Words == StringsOf(MaxStr)

\* self._levenshtein(x, y) for the pairs of the three strings.
Measure ==
    /\ pc = "words"
    /\ dist' = [aa |-> Levenshtein(words[1], words[1]),
                ae |-> Levenshtein(words[1], <<>>),
                ab |-> Levenshtein(words[1], words[2]),
                ba |-> Levenshtein(words[2], words[1]),
                bc |-> Levenshtein(words[2], words[3]),
                ac |-> Levenshtein(words[1], words[3])]
    /\ pc' = "measured"
    /\ UNCHANGED <<topk, posts, result, crawlvars, queryvars, deepvars, buildvars, urlvars,
                   extvars,
                   words>>

InitLev ==
    /\ pc = "words"
    /\ topk = <<>>
    /\ posts = <<>>
    /\ budget = 0
    /\ site = IdleSite
    /\ Idle
    /\ IdleQuery
    /\ IdleDeep
    /\ IdleBuild
    /\ IdleUrl
    /\ IdleExt
    /\ words \in Words \X Words \X Words
    /\ dist = NoDistances

NextLev == Measure

SpecLev == InitLev /\ [][NextLev]_vars

\* ============================================== crawl_post, link-chain mode
\* A thread longer than the chain may follow: pages 1 .. MAX_CHAIN_STEPS + 2,
\* each with a next link but the last.
LongSites == [kind : {"pid"}, pages : {MAX_CHAIN_STEPS + 2}, tail : {"end"}]

\* Page 1 is reached and _infer_total_pages finds no evidence of further
\* pages: total_pages is 1 and the link chain begins.
StartLone == Start /\ total_pages' = 1

\* No cap, or the largest cap of the model.
ChainTopkArgs == {<<0>>, <<MaxTopk>>}

\* Any forum with any budget; the long thread without cap and budget, so
\* that nothing but the chain itself ends the chain.
InitChain ==
    /\ pc = "start"
    /\ \/ topk \in ChainTopkArgs /\ budget \in Budgets /\ site \in Sites
       \/ topk = <<0>> /\ budget = 0 /\ site \in LongSites
    /\ posts = <<>>
    /\ Idle
    /\ IdleQuery
    /\ IdleDeep
    /\ IdleBuild
    /\ IdleUrl
    /\ IdleLev
    /\ IdleExt

NextChain ==
    \/ Tick
    \/ StartFail
    \/ StartLone
    \/ ChainTop
    \/ ChainExtracted
    \/ ChainLookupDone
    \/ RangeTop
    \/ RangeDone
    \/ Finish

SpecChain == InitChain /\ [][NextChain]_vars

\* ================================================ crawl_post, long threads
\* Every mode of crawl_post, on the small forums and, with no cap and no budget, on
\* a thread longer than MAX_CHAIN_STEPS pages.
InitLong ==
    /\ pc = "start"
    /\ \/ topk \in TopkArgs /\ budget \in Budgets /\ site \in Sites
       \/ topk = <<0>> /\ budget = 0 /\ site \in LongSites
    /\ posts = <<>>
    /\ Idle
    /\ IdleQuery
    /\ IdleDeep
    /\ IdleBuild
    /\ IdleUrl
    /\ IdleLev
    /\ IdleExt

SpecLong == InitLong /\ [][Next]_vars

\* ============================================ _extract_posts_with_fallback
\* The records the primary script finds carry a pid; those of the fallback
\* script carry none (pid: null).
PrimaryData(n) == [i \in 1 .. n |-> [pid |-> i, floor |-> i - 1]]
FallbackData(n) == [i \in 1 .. n |-> [pid |-> None, floor |-> i - 1]]

\* _extract_posts and _extract_posts_fallback: the script's records, and []
\* when page.evaluate raises (except Exception: return []).
ExtractPostsPrimary(ok, data) ==
    IF ok THEN [raised |-> FALSE, arr |-> data] ELSE [raised |-> FALSE, arr |-> <<>>]
ExtractPostsFallback(ok, data) ==
    IF ok THEN [raised |-> FALSE, arr |-> data] ELSE [raised |-> FALSE, arr |-> <<>>]

\* A variant that hands the fallback over on a tie.
LargerOrFallback(primary, fallback) ==
    IF Len(fallback) >= Len(primary) THEN fallback ELSE primary

\* return fallback if len(fallback) > len(primary) else primary
Larger(primary, fallback) ==
    IF Len(fallback) > Len(primary) THEN fallback ELSE primary

\* primary = await self._extract_posts(page); if len(primary) >= 5: return primary
RunPrimary ==
    /\ pc = "extract"
    /\ LET r == ExtractPostsPrimary(dom.primary_ok, PrimaryData(dom.primary))
       IN IF r.raised
          THEN /\ ext' = [ext EXCEPT !.raised = TRUE]
               /\ pc' = "extract_raised"
          ELSE IF Len(r.arr) >= MIN_PLAUSIBLE
               THEN /\ ext' = [ext EXCEPT !.primary = r.arr, !.returned = r.arr]
                    /\ pc' = "extracted"
               ELSE /\ ext' = [ext EXCEPT !.primary = r.arr]
                    /\ pc' = "fallback"
    /\ UNCHANGED <<topk, posts, result, crawlvars, queryvars, deepvars, buildvars, urlvars,
                   levvars, dom>>

\* fallback = await self._extract_posts_fallback(page); return the larger
RunFallback ==
    /\ pc = "fallback"
    /\ LET r == ExtractPostsFallback(dom.fallback_ok, FallbackData(dom.fallback))
       IN IF r.raised
          THEN /\ ext' = [ext EXCEPT !.raised = TRUE, !.ran_fallback = TRUE]
               /\ pc' = "extract_raised"
          ELSE /\ ext' = [ext EXCEPT !.fallback = r.arr, !.ran_fallback = TRUE,
                                     !.returned = Larger(ext.primary, r.arr)]
               /\ pc' = "extracted"
    /\ UNCHANGED <<topk, posts, result, crawlvars, queryvars, deepvars, buildvars, urlvars,
                   levvars, dom>>

\* Any page: up to MaxYield records for each script, either of which may fail.
Doms == [primary : 0 .. MaxYield, primary_ok : BOOLEAN,
         fallback : 0 .. MaxYield, fallback_ok : BOOLEAN]

InitExtract ==
    /\ pc = "extract"
    /\ topk = <<>>
    /\ posts = <<>>
    /\ budget = 0
    /\ site = IdleSite
    /\ Idle
    /\ IdleQuery
    /\ IdleDeep
    /\ IdleBuild
    /\ IdleUrl
    /\ IdleLev
    /\ dom \in Doms
    /\ ext = NoExtraction

NextExtract == RunPrimary \/ RunFallback

SpecExtract == InitExtract /\ [][NextExtract]_vars

\* ================================================================ claims
Comments == result.comments
Count(s, x) == Cardinality({i \in DOMAIN s : s[i] = x})

\* The first index of ps whose post carries pid.
FirstWithPid(ps, pid) ==
    CHOOSE i \in DOMAIN ps : ps[i].pid = pid /\ \A j \in 1 .. i - 1 : ps[j].pid # pid

\* C1: the returned comments hold at most one post per non-null pid, and the post
\* kept for a pid is the first post accumulated with that pid.
C1_OnePerPidFirstKept ==
    pc = "done" =>
        /\ \A i, j \in DOMAIN Comments :
              (i # j /\ Comments[i].pid # None) => Comments[i].pid # Comments[j].pid
        /\ \A i \in DOMAIN Comments :
              Comments[i].pid # None =>
                  Comments[i] = posts[FirstWithPid(posts, Comments[i].pid)]

\* C1 witness: a pid was accumulated twice with different floors, and is returned.
C1_Witness ==
    /\ pc = "done"
    /\ \E i, j \in DOMAIN posts :
          /\ i < j /\ posts[i].pid # None /\ posts[i].pid = posts[j].pid
          /\ posts[i] # posts[j]
          /\ \E k \in DOMAIN Comments : Comments[k].pid = posts[i].pid

\* The number of entries de-duplication leaves: every post without a pid, and one
\* per distinct pid.
DistinctCount(ps) ==
    Cardinality({i \in DOMAIN ps : ps[i].pid = None})
    + Cardinality({ps[i].pid : i \in {k \in DOMAIN ps : ps[k].pid # None}})

\* p's floor is not after q's, a missing floor being last.
FloorLE(p, q) == q.floor = None \/ (p.floor # None /\ p.floor <= q.floor)

\* cs holds n entries of the de-duplicated posts, and no entry left out has a lower
\* floor than an entry of cs.
LowestOf(cs, n) ==
    LET d == Dedup(posts)
    IN /\ Len(cs) = Min2(n, DistinctCount(posts))
       /\ \A x \in Range(cs) : Count(cs, x) <= Count(d, x)
       /\ \A x \in Range(d) : Count(cs, x) < Count(d, x) => \A y \in Range(cs) : FloorLE(y, x)

Untruncated(cs) ==
    /\ Len(cs) = DistinctCount(posts)
    /\ \A x \in Range(posts) : Count(cs, x) = Count(Dedup(posts), x)

\* C2 as stated: a cap N > 0 yields the min(N, distinct_count) lowest-floor entries;
\* a cap of 0, or no cap given, never truncates.
C2_AsStated ==
    pc = "done" =>
        /\ (topk # <<>> /\ topk[1] > 0) => LowestOf(Comments, topk[1])
        /\ (topk = <<>> \/ topk[1] = 0) => Untruncated(Comments)

\* C2 amended: as stated for a given cap; an omitted topk is a cap of 50.
C2_CapWithDefault ==
    pc = "done" =>
        LET n == IF topk = <<>> THEN DefaultTopk ELSE topk[1]
        IN /\ n > 0 => LowestOf(Comments, n)
           /\ n <= 0 => Untruncated(Comments)

\* C2 witness: the cap cut the list, a given one and the default one.
C2_Witness ==
    /\ pc = "done"
    /\ \/ topk # <<>> /\ topk[1] > 0 /\ Len(Comments) = topk[1]
          /\ DistinctCount(posts) > topk[1]
       \/ topk = <<>> /\ Len(Comments) = DefaultTopk /\ DistinctCount(posts) > DefaultTopk

\* C3: the returned comments are sorted non-decreasing by floor, and a post without
\* a floor comes after every post with one.
C3_SortedNullLast ==
    pc = "done" =>
        \A i, j \in DOMAIN Comments :
            i < j =>
                /\ (Comments[i].floor # None /\ Comments[j].floor # None)
                      => Comments[i].floor <= Comments[j].floor
                /\ Comments[i].floor = None => Comments[j].floor = None

\* C3 witness: posts accumulated out of order, one without a floor ahead of one with.
C3_Witness ==
    /\ pc = "done"
    /\ \E i, j \in DOMAIN posts :
          /\ i < j /\ posts[i].floor = None /\ posts[j].floor # None
          /\ posts[i].pid # posts[j].pid
    /\ \E i, j \in DOMAIN posts :
          i < j /\ posts[i].floor # None /\ posts[j].floor # None
          /\ posts[i].floor > posts[j].floor /\ posts[i].pid # posts[j].pid
    /\ Len(Comments) = Len(posts)

\* The page navigations in flight: in the sweep, and in the sequential loops.
SweepInFlight == Cardinality({i \in DOMAIN task : task[i] = "nav"})
NavsInFlight ==
    SweepInFlight + (IF rng.st = "nav" THEN 1 ELSE 0)
                  + (IF ch.st \in {"nav", "lookup"} THEN 1 ELSE 0)

\* C4 as stated: with a budget of 0 no page other than the first is fetched, and
\* the posts are those of the first page.
C4_AsStated == budget = 0 => (NavsInFlight = 0 /\ posts = first)

\* C4 amended: a budget of 0 is never exhausted; a positive budget that has run out
\* when page 1 is in hand admits no further fetch in any mode, and the crawl
\* returns the posts of page 1 alone.
C4_ExhaustedBudgetFirstPageOnly ==
    /\ budget = 0 => ~ OutOfBudget
    /\ late => /\ NavsInFlight = 0
               /\ posts = first
               /\ pc \notin {"failed"}
               /\ pc = "done" => (result.success /\ Comments = Merge(first, MaxComments(topk)))

\* C4 witness: the crawl returned under an exhausted budget although the thread has
\* further pages, in the sweep mode and in the chain mode.
C4_Witness ==
    /\ pc = "done" /\ late /\ site.pages > 1 /\ first # <<>>
    /\ Len(Comments) = Len(first)

\* A step that starts a page navigation, by mode.
SweepNavStart == \E i \in DOMAIN task : task[i] = "wait" /\ i \in DOMAIN task' /\ task'[i] = "nav"
RangeNavStart == rng.st = "top" /\ rng'.st = "nav"
ChainNavStart == ch.st = "top" /\ ch'.st = "nav"
LookupNavStart == ch.st = "nav" /\ ch'.st = "lookup"

\* C5 as stated: once the budget (> 0) is exhausted no step starts a navigation, in
\* the sweep, the sequential sweeps, the chain or the chain's next-link lookup.
C5_AsStated ==
    [][OutOfBudget => ~ (SweepNavStart \/ RangeNavStart \/ ChainNavStart \/ LookupNavStart)]_vars

\* What the code does keep: every navigation but the chain's lookup is budget-gated.
C5_GatedButLookup ==
    [][OutOfBudget => ~ (SweepNavStart \/ RangeNavStart \/ ChainNavStart)]_vars

\* C6: at most CONCURRENCY fetches of the sweep are in flight; the free slots of the
\* semaphore and the fetches in flight add up to CONCURRENCY; and a task leaves the
\* wait (to navigate, or to return [] out of budget) only when a slot is free.
C6_AtMostConcurrencyInFlight ==
    [][/\ SweepInFlight' <= CONCURRENCY
       /\ sem' >= 0
       /\ sem' + SweepInFlight' = CONCURRENCY
       /\ \A i \in DOMAIN task :
             (task[i] = "wait" /\ i \in DOMAIN task' /\ task'[i] # "wait") => sem > 0]_vars

\* C6 witness: the gate is full and a dispatched task waits at it.
C6_Witness ==
    /\ pc = "sweep"
    /\ SweepInFlight = CONCURRENCY
    /\ sem = 0
    /\ \E i \in DOMAIN task : task[i] = "wait"

\* C7: a crawl that returns after page 1 was reached returns success, whatever
\* failed later and whether or not the budget ran out; success is false, with an
\* error, only when page 1 itself was not reached.
C7_OnlyFirstPageFails ==
    /\ pc = "done" => (result.success /\ result.error = 0)
    /\ pc = "failed" => (~ result.success /\ result.error = 1)
    /\ pc \notin {"done", "failed"} => result = NoResult

\* C7 witness: a later page failed, the budget ran out, and the crawl succeeded.
C7_Witness ==
    /\ pc = "done" /\ result.success
    /\ fails > 0 /\ first # <<>>
    /\ OutOfBudget
    /\ Len(posts) > Len(first)

\* ------------------------------------------------------------ query claims
Answered == pc = "answered"
\* The query as query_boards compares it: stripped and lower-cased.
Needle == Norm(name)
GivenTopk == IF topk = <<>> THEN QueryDefaultTopk ELSE topk[1]

\* A category label (a non-empty category string, compared without regard
\* to case) contains the query or is contained in it.
LabelMatches(label) ==
    /\ label # <<>>
    /\ In(Needle, StrLower(label)) \/ In(StrLower(label), Needle)
MatchesByCategory(b) == LabelMatches(b.category_l1) \/ LabelMatches(b.category_l2)
SomeCategoryMatch == \E i \in DOMAIN index : MatchesByCategory(index[i])

\* r keeps the order of the index file.
InIndexOrder(r) ==
    /\ \A i \in DOMAIN r : r[i].fid \in DOMAIN index /\ r[i] = index[r[i].fid]
    /\ \A i, j \in DOMAIN r : i < j => r[i].fid < r[j].fid

\* C8: when some board's category_l1 or category_l2 contains the query or is
\* contained in it, the answer has query_type "category", is not empty,
\* holds every matching board in index order whatever topk is, and no fuzzy
\* ranking was computed; a fuzzy answer is given only when no board matches
\* by category.
C8_CategoryFirst ==
    Answered =>
        /\ SomeCategoryMatch =>
              /\ answer.query_type = "category"
              /\ answer.results # <<>>
              /\ \A i \in DOMAIN index :
                     MatchesByCategory(index[i]) => index[i] \in Range(answer.results)
              /\ InIndexOrder(answer.results)
              /\ ~answer.scored
        /\ (answer.query_type = "fuzzy" \/ answer.scored) => ~SomeCategoryMatch

\* A category answer longer than topk, with a board matched by its
\* category_l2 alone.
C8_Witness ==
    /\ Answered
    /\ answer.query_type = "category"
    /\ Len(answer.results) > Max2(1, GivenTopk)
    /\ Needle # <<>>
    /\ \E i \in DOMAIN answer.results :
           /\ answer.results[i].category_l1 # <<>>
           /\ ~LabelMatches(answer.results[i].category_l1)
           /\ LabelMatches(answer.results[i].category_l2)

\* The edit distance by its defining recursion on the first characters.
RECURSIVE RefLev(_, _)
RefLev(a, b) ==
    IF a = <<>> THEN Len(b)
    ELSE IF b = <<>> THEN Len(a)
    ELSE IF Head(a) = Head(b) THEN RefLev(Tail(a), Tail(b))
    ELSE 1 + Min3(RefLev(Tail(a), b), RefLev(a, Tail(b)), RefLev(Tail(a), Tail(b)))

\* The lower-cased names of a board, of its forums and of its collections.
NamesOf(b) ==
    ({StrLower(b.name)} \cup {StrLower(b.forums[i]) : i \in DOMAIN b.forums}
        \cup {StrLower(b.collections[i]) : i \in DOMAIN b.collections}) \ {<<>>}
RefScore(b) ==
    IF NamesOf(b) = {} THEN 1000000000
    ELSE MinOf({RefLev(Needle, x) : x \in NamesOf(b)})
\* (score, name) of b1 is at most (score, name) of b2.
KeyLE(b1, b2) ==
    \/ RefScore(b1) < RefScore(b2)
    \/ RefScore(b1) = RefScore(b2) /\ ~StrLess(b2.name, b1.name)

\* C9: a fuzzy answer holds exactly min(max(1, topk), number of boards)
\* boards, the first ones of the index ordered ascending by (score, name),
\* where a board's score is the least edit distance from the query to the
\* names of the board, its forums and its collections, and 10^9 when it has
\* no name; for "炉石传说" and "魔兽世界" the query "炉石" puts "炉石传说" first.
C9_FuzzyRanking ==
    Answered =>
        /\ answer.query_type = "fuzzy" =>
              LET r == answer.results
              IN /\ Len(r) = Min2(Max2(1, GivenTopk), Len(index))
                 /\ \A i \in DOMAIN r : r[i] \in Range(index)
                 /\ \A i, j \in DOMAIN r : i < j => r[i] # r[j] /\ KeyLE(r[i], r[j])
                 /\ \A b \in Range(index) \ Range(r) :
                        \A i \in DOMAIN r : KeyLE(r[i], b)
        /\ (index \in GameIndexes /\ name = HearthQuery) =>
              /\ answer.query_type = "fuzzy"
              /\ answer.results[1].name = Hearthstone

\* A fuzzy answer cut to one board out of two of equal score, the second of
\* the index winning by its name, and scoring by a child's name.
C9_Witness ==
    /\ Answered
    /\ answer.query_type = "fuzzy"
    /\ Len(index) = 2
    /\ Len(answer.results) = 1
    /\ RefScore(index[1]) = RefScore(index[2])
    /\ answer.results[1].fid = 2
    /\ StrLower(answer.results[1].name) \notin NamesOf(answer.results[1])
    /\ RefScore(index[2]) < 1000000000

\* ------------------------------------------------------- deep-index claims
Fetching == {i \in DOMAIN load : load[i] = "fetch"}

\* C10: during the deep phase the number of child fetches under way never
\* exceeds the concurrency limit, whatever the order in which tasks finish.
C10_AtMostLimitFetching == Cardinality(Fetching) <= limit

\* Three boards under a limit of SmallLimit: the limit is reached while a
\* board still waits.
C10_Witness ==
    /\ pc = "loading"
    /\ limit = SmallLimit
    /\ Cardinality(Fetching) = limit
    /\ \E i \in DOMAIN load : load[i] = "wait"

\* The entries of the boards list that stand for the i-th shallow board.
EntriesOf(i) == {n \in DOMAIN results : results[n].fid = shallow[i].fid}

\* C11: when the deep phase has saved its result, the boards list holds
\* exactly one entry for every shallow board (each carrying a url, as every
\* board of the shallow crawl does) and no other entry, whatever the order
\* of completion and whichever fetches failed; a failed fetch leaves its
\* board in the list with no children.
C11_OneEntryPerBoard ==
    pc = "saved" =>
        /\ \A i \in DOMAIN shallow : shallow[i].url => Cardinality(EntriesOf(i)) = 1
        /\ \A n \in DOMAIN results :
               \E i \in DOMAIN shallow : shallow[i].url /\ n \in EntriesOf(i)
        /\ (\A i \in DOMAIN shallow : shallow[i].url) => Len(results) = Len(shallow)

\* Three boards saved, one of them after a failed fetch, another after a
\* fetch that succeeded, in an order that is not the order of the input.
C11_Witness ==
    /\ pc = "saved"
    /\ Len(shallow) = 3
    /\ Len(results) = 3
    /\ \E n \in DOMAIN results : results[n].children = <<>>
    /\ \E n \in DOMAIN results : results[n].children # <<>>
    /\ results[1].fid # 1

\* ------------------------------------------------------- index file claims
\* C12: with no index file at any candidate path, and with a file whose
\* content is not an index document, query_boards and get_board_structure
\* both return success = false with the error index_not_found_or_invalid,
\* and neither leaves with an exception or returns a payload.
C12_AsStated ==
    /\ (pc = "answered" /\ file # "index") =>
           /\ ~answer.success
           /\ ~answer.raised
           /\ answer.error = "index_not_found_or_invalid"
    /\ (pc = "structured" /\ file # "index") =>
           /\ ~tree.success
           /\ ~tree.raised
           /\ tree.error = "index_not_found_or_invalid"

\* ------------------------------------------------------- structure claims
Structured == pc = "structured" /\ file = "index"

\* The first-level and second-level buckets a board belongs to.
BucketL1(b) == IF b.category_l1 = <<>> THEN Ungrouped ELSE b.category_l1
BucketL2(b) == IF b.category_l2 = <<>> THEN DirectBoards ELSE b.category_l2

\* Where the structure holds an entry with this fid.
PlacesOf(st, fid) ==
    UNION {UNION {{<<c1, c2, n>> : n \in {m \in DOMAIN st[c1][c2] : st[c1][c2][m].fid = fid}} :
                    c2 \in DOMAIN st[c1]} : c1 \in DOMAIN st}

RECURSIVE SumOver(_, _)
SumOver(f, S) ==
    IF S = {} THEN 0
    ELSE LET x == CHOOSE y \in S : TRUE IN f[x] + SumOver(f, S \ {x})

\* The number of boards filed under the first-level bucket c1.
CountUnder(st, c1) == SumOver([c2 \in DOMAIN st[c1] |-> Len(st[c1][c2])], DOMAIN st[c1])

\* C19: get_board_structure files every board of the index exactly once,
\* under its category_l1 (or "(未分组)") and there under its category_l2 (or
\* "_direct_boards"); total_categories is the number of distinct first-level
\* buckets and the counts of the buckets add up to the number of boards; two
\* boards of "游戏" and one of "生活" give total_categories = 2.
C19_EveryBoardFiledOnce ==
    Structured =>
        LET st == tree.structure
        IN /\ tree.success
           /\ \A i \in DOMAIN index :
                  \A p \in PlacesOf(st, index[i].fid) :
                      p[1] = BucketL1(index[i]) /\ p[2] = BucketL2(index[i])
           /\ \A i \in DOMAIN index : Cardinality(PlacesOf(st, index[i].fid)) = 1
           /\ tree.total_categories =
                  Cardinality({BucketL1(index[i]) : i \in DOMAIN index})
           /\ SumOver([c1 \in DOMAIN st |-> CountUnder(st, c1)], DOMAIN st) = Len(index)
           /\ index \in GameLifeIndexes =>
                  /\ tree.total_categories = 2
                  /\ CountUnder(st, Games) = 2
                  /\ CountUnder(st, Life) = 1

\* The structure of the index with two boards of "游戏" and one of "生活".
C19_Witness ==
    /\ Structured
    /\ index \in GameLifeIndexes
    /\ Len(tree.structure[Games][DirectBoards]) = 2

\* ------------------------------------------------------ index build claims
\* The fids of the landing page's entries, empty ones left out.
HomeFidSet == {home[i].fid : i \in DOMAIN home} \ {None}
\* The first entry of the landing page with this fid.
FirstOfFid(f) == CHOOSE i \in DOMAIN home : home[i].fid = f /\ \A j \in 1 .. i - 1 : home[j].fid # f

\* C13: the boards of build_boards_index carry pairwise distinct, non-empty
\* fids; each stands for the first entry of its fid on the landing page and
\* the boards keep the order of those first entries; with max_boards = M > 0
\* the list holds exactly the first min(M, number of distinct fids) of them,
\* and all of them otherwise.
C13_DedupByFidFirstKept ==
    pc = "built" =>
        LET bs == built.boards
            expected == IF max_boards # None /\ max_boards > 0
                        THEN Min2(max_boards, Cardinality(HomeFidSet))
                        ELSE Cardinality(HomeFidSet)
        IN /\ \A m, n \in DOMAIN bs : m # n => bs[m].fid # bs[n].fid
           /\ \A n \in DOMAIN bs : bs[n].fid \in HomeFidSet
                                    /\ bs[n].name = home[FirstOfFid(bs[n].fid)].name
           /\ \A m, n \in DOMAIN bs : m < n => FirstOfFid(bs[m].fid) < FirstOfFid(bs[n].fid)
           /\ Len(bs) = expected
           /\ \A f \in HomeFidSet :
                  (\A n \in DOMAIN bs : bs[n].fid # f) =>
                      \A n \in DOMAIN bs : FirstOfFid(bs[n].fid) < FirstOfFid(f)

\* A landing page with a repeated fid and an entry without fid, cut by
\* max_boards to fewer boards than it has distinct fids.
C13_Witness ==
    /\ pc = "built"
    /\ \E i \in DOMAIN home : home[i].fid = None
    /\ Len(home) > Cardinality(HomeFidSet) + 1
    /\ max_boards # None /\ max_boards > 0
    /\ Len(built.boards) = max_boards
    /\ max_boards < Cardinality(HomeFidSet)

BoardFields ==
    {"name", "url", "fid", "description", "category_l1", "category_l2",
     "forums", "collections"}

\* C20: every board an index build writes has exactly the fields name, url,
\* fid, description, category_l1, category_l2, forums and collections, and
\* the document has exactly generated_at and boards.
C20_AsStated ==
    pc \in {"built", "built_from_html"} =>
        /\ DOMAIN built = {"generated_at", "boards"}
        /\ \A n \in DOMAIN built.boards : DOMAIN built.boards[n] = BoardFields

\* The position in the shallow list of the board a saved entry stands for.
ShallowPos(e) == CHOOSE i \in DOMAIN shallow : shallow[i].fid = e.fid

\* C14: after the deep phase the boards of the saved index are in the
\* relative order of the shallow list, whatever the order of completion.
C14_AsStated ==
    pc = "saved" =>
        \A m, n \in DOMAIN results :
            m < n => ShallowPos(results[m]) < ShallowPos(results[n])

\* ------------------------------------------------------- re-fetched pages
\* C15: whichever pages a crawl fetched more than once, every post of the
\* thread is in the returned comments at most once, with or without a pid
\* (the posts of distinct pages of a forum are distinct).
C15_AsStated ==
    pc = "done" =>
        \A m, n \in DOMAIN result.comments :
            m # n => result.comments[m] # result.comments[n]

\* ---------------------------------------------------- page URL templates
TidOf(u) == QsGet(ParseQs(u.query), "tid")
PageOfUrl(u) == QsGet(ParseQs(u.query), "page")
KeysOf(u) == {u.query[n].k : n \in DOMAIN u.query}
\* The URL is well formed and its tid parameter is an integer.
CarriesTid(u) == ~Malformed(u) /\ TidOf(u) # <<>> /\ IntOf(TidOf(u)[1]).ok
Instantiated == pc \in {"instantiated", "rederived"}

\* C16: for a URL that carries a tid and any page number k, the derived
\* template filled in with k is a URL whose page value is k, whose tid is the
\* input's tid (as a number), and that has no other query parameter and no
\* fragment; deriving a template from that URL gives the same template again.
C16_TidTemplateRoundTrip ==
    CarriesTid(post_url) =>
        /\ pc # "url_raised"
        /\ Instantiated =>
              /\ PageOfUrl(page_url) = <<Dec(page_no)>>
              /\ Len(TidOf(page_url)) = 1
              /\ IntOf(TidOf(page_url)[1]) = IntOf(TidOf(post_url)[1])
              /\ KeysOf(page_url) = {"tid", "page"}
              /\ Len(page_url.query) = 2
              /\ page_url.fragment = ""
        /\ pc = "rederived" => template2 = template

C16_Witness ==
    /\ pc = "rederived"
    /\ CarriesTid(post_url)
    /\ TidOf(post_url)[1] = <<48, 48, 55>>
    /\ PageOfUrl(post_url) = <<<<51>>>>
    /\ "x" \in KeysOf(post_url)
    /\ post_url.fragment = "top"
    /\ page_no = 2

\* C17 as stated: for a URL without a usable tid, the derived template filled
\* in with k is a URL whose page value is k, and neither step raises.
C17_AsStated ==
    ~CarriesTid(post_url) =>
        /\ pc # "url_raised"
        /\ Instantiated => PageOfUrl(page_url) = <<Dec(page_no)>>

\* ------------------------------------------------------------ edit distance
\* C18: for all strings a, b, c the measured distances satisfy d(a,a) = 0,
\* d(a,"") = len(a), d(a,b) = d(b,a), d(a,c) <= d(a,b) + d(b,c), and each
\* equals the edit distance given by its defining recursion.
C18_EditDistanceLaws ==
    pc = "measured" =>
        /\ dist.aa = 0
        /\ dist.ae = Len(words[1])
        /\ dist.ab = dist.ba
        /\ dist.ac <= dist.ab + dist.bc
        /\ dist.ab = RefLev(words[1], words[2])
        /\ dist.bc = RefLev(words[2], words[3])
        /\ dist.ac = RefLev(words[1], words[3])

\* a = "aab", b = "ba", c = "bbb": a substitution with a deletion, a
\* substitution with an insertion, two substitutions.
C18_Witness ==
    /\ pc = "measured"
    /\ words = <<<<97, 97, 98>>, <<98, 97>>, <<98, 98, 98>>>>
    /\ dist.ab = 2
    /\ dist.bc = 2
    /\ dist.ac = 2

\* ------------------------------------------------------ direct-mode sweeps
\* Two consecutive pages of the concurrent sweep, both before page j, have
\* come back with no record.
EmptyStreakBefore(j) ==
    \E i \in DOMAIN task :
        /\ i + 1 \in DOMAIN task
        /\ i + 1 < j
        /\ task[i] = "done" /\ res[i] = <<>>
        /\ task[i + 1] = "done" /\ res[i + 1] = <<>>

\* A page of a sequential sweep has been fetched and the sweep goes on.
SameSweep == rng.st = "nav" /\ rng'.st = "top" /\ pc' = pc

\* C21 as stated: in a direct-mode sweep (the concurrent sweep of fetch_page
\* tasks and the sequential sweeps of _fetch_pages_range) no page is fetched
\* once EMPTY_PAGE_STOP consecutive pages have yielded no record, and a page
\* that yields a record resets the streak to zero.
C21_AsStated ==
    [][/\ \A j \in DOMAIN task :
             (task[j] = "wait" /\ j \in DOMAIN task' /\ task'[j] = "nav")
                 => ~EmptyStreakBefore(j)
       /\ RangeNavStart => rng.empty < EMPTY_PAGE_STOP
       /\ (SameSweep /\ Len(posts') > Len(posts))
             => rng'.empty = 0]_vars

\* What _fetch_pages_range keeps: the sequential sweeps stop on the streak.
C21_SequentialSweepsStop ==
    [][/\ RangeNavStart => rng.empty < EMPTY_PAGE_STOP
       /\ (SameSweep /\ Len(posts') > Len(posts))
             => rng'.empty = 0
       /\ (SameSweep /\ Len(posts') = Len(posts))
             => rng'.empty = rng.empty + 1]_vars

\* ------------------------------------------------------- the primary sweep
\* Page 1's posts other than the opening post.
FirstYield == Cardinality({i \in DOMAIN first : first[i].floor # None /\ first[i].floor # 0})
CeilDiv(a, b) == (a + b - 1) \div b
\* The least number of further pages that reaches n posts at that yield.
PagesNeeded(n) ==
    IF Len(first) >= n THEN 0 ELSE CeilDiv(n - Len(first), Max2(1, FirstYield))

\* C22 as stated: with a cap N > 0 and more than one page the primary sweep
\* dispatches pages 2 .. 1 + min(total - 1, pages needed), which is no page
\* when page 1 holds N posts already; without a cap it dispatches 2 .. total.
C22_AsStated ==
    (pc = "sweep" /\ total_pages > 1) =>
        LET n == MaxComments(topk)
        IN /\ n > 0 => DOMAIN task = 2 .. (1 + Min2(total_pages - 1, PagesNeeded(n)))
           /\ n = 0 => DOMAIN task = 2 .. total_pages

\* What the code keeps: the claim's count whenever page 1 is short of the cap.
C22_WhenShort ==
    (pc = "sweep" /\ total_pages > 1) =>
        LET n == MaxComments(topk)
        IN /\ (n > 0 /\ Len(first) < n)
                => DOMAIN task = 2 .. (1 + Min2(total_pages - 1, PagesNeeded(n)))
           /\ n = 0 => DOMAIN task = 2 .. total_pages

\* ------------------------------------------------------------ the link chain
\* A step that leaves _chain_via_next.
ChainEnds == pc = "chain" /\ pc' # "chain"
\* Why the loop is left: at its head, after the extraction, after the lookup.
EndsOnBudget == ch.st = "top" /\ OutOfBudget
EndsOnStepMaximum == ch.st = "top" /\ ch.steps >= MAX_CHAIN_STEPS
EndsOnEmptyNext == ch.st = "top" /\ ch.next = 0
EndsOnRevisit == ch.st = "top" /\ ch.next \in ch.visited
EndsOnLookupFailure == ch.st = "lookup" /\ fails' = fails + 1
EndsOnCap == ch.st = "nav" /\ CapReached(posts')

\* C23: the link chain takes at most MAX_CHAIN_STEPS steps; every step
\* processes a URL no earlier step processed; and the chain is left only on
\* budget exhaustion, the step maximum, an empty next link, a revisited
\* URL, a failed next-link lookup or the cap being reached.
C23_ChainBoundedAcyclic ==
    [][/\ ch'.steps <= MAX_CHAIN_STEPS
       /\ Cardinality(ch'.visited) = ch'.steps
       /\ ChainNavStart =>
             /\ ch.next \notin ch.visited
             /\ ch'.visited = ch.visited \cup {ch.next}
             /\ ch'.steps = ch.steps + 1
       /\ ChainEnds =>
             \/ EndsOnBudget
             \/ EndsOnStepMaximum
             \/ EndsOnEmptyNext
             \/ EndsOnRevisit
             \/ EndsOnLookupFailure
             \/ EndsOnCap]_vars

\* The chain has taken its last allowed step, and the page it stands on has
\* a next link to a page not yet visited, within the budget.
C23_Witness ==
    /\ pc = "chain"
    /\ ch.st = "top"
    /\ ch.steps = MAX_CHAIN_STEPS
    /\ ch.next # 0
    /\ ch.next \notin ch.visited
    /\ ~ OutOfBudget

\* ------------------------------------------------------- terminal reasons
\* A step that leaves a sequential sweep, and one that leaves the concurrent
\* sweep.
RangeEnds == pc \in {"cont", "rescan", "seq"} /\ pc' # pc
SweepEnds == pc = "sweep" /\ pc' # "sweep"
\* A cap was asked for and the posts have reached it.
CapHit(ps) == MaxComments(topk) > 0 /\ Len(ps) >= MaxComments(topk)

BUDGET_EXHAUSTED ==
    \/ RangeEnds /\ rng.st = "top" /\ OutOfBudget
    \/ ChainEnds /\ EndsOnBudget
TRAVERSAL_EXHAUSTED ==
    \/ RangeEnds /\ rng.st = "top" /\ rng.page > rng.end
    \/ ChainEnds /\ (EndsOnStepMaximum \/ EndsOnEmptyNext \/ EndsOnRevisit)
    \/ SweepEnds /\ \A i \in DOMAIN task : task[i] = "done"
EMPTY_STREAK_STOP ==
    RangeEnds /\ rng.st = "nav" /\ posts' = posts /\ rng.empty + 1 >= EMPTY_PAGE_STOP
CAP_REACHED ==
    \/ RangeEnds /\ rng.st = "nav" /\ Len(posts') > Len(posts) /\ CapHit(posts')
    \/ ChainEnds /\ ch.st = "nav" /\ CapHit(posts')
LOOKUP_FAILED == ChainEnds /\ EndsOnLookupFailure

\* The positions of crawl_post: page 1, then the concurrent sweep with its two
\* widening sweeps or the link chain with its sequential sweep, then the merge.
Transitions ==
    {<<"start", "sweep">>, <<"start", "chain">>, <<"start", "failed">>,
     <<"sweep", "cont">>, <<"sweep", "merge">>,
     <<"cont", "rescan">>, <<"cont", "merge">>, <<"rescan", "merge">>,
     <<"chain", "seq">>, <<"chain", "merge">>, <<"seq", "merge">>,
     <<"merge", "done">>}

\* C24 as stated: every sweep of a crawl ends on BUDGET_EXHAUSTED,
\* TRAVERSAL_EXHAUSTED or EMPTY_STREAK_STOP and on nothing else.
C24_AsStated ==
    [][(RangeEnds \/ ChainEnds \/ SweepEnds)
          => (BUDGET_EXHAUSTED \/ TRAVERSAL_EXHAUSTED \/ EMPTY_STREAK_STOP)]_vars

\* C24 amended: the crawl moves from page 1 through its sweeps to the merge and
\* the return, never back; and every sweep ends on BUDGET_EXHAUSTED,
\* TRAVERSAL_EXHAUSTED, EMPTY_STREAK_STOP, on the cap being reached, or (the
\* link chain) on a failed next-link lookup, and on nothing else.
C24_TerminalReasons ==
    [][/\ pc' # pc => <<pc, pc'>> \in Transitions
       /\ (RangeEnds \/ ChainEnds \/ SweepEnds)
             => \/ BUDGET_EXHAUSTED
                \/ TRAVERSAL_EXHAUSTED
                \/ EMPTY_STREAK_STOP
                \/ CAP_REACHED
                \/ LOOKUP_FAILED]_vars

\* A crawl returned whose link chain stopped on the cap: nothing failed, the
\* budget was not exhausted, and the sequential sweep was not run.
C24_Witness ==
    /\ pc = "done"
    /\ total_pages = 1
    /\ fails = 0
    /\ ~ OutOfBudget
    /\ CapHit(posts)
    /\ Len(posts) > Len(first)
    /\ Len(first) < MaxComments(topk)

\* ------------------------------------------------------ completion order
\* The pages lo .. hi of the forum, one after the other.
RECURSIVE PagesInOrder(_, _)
PagesInOrder(lo, hi) ==
    IF lo > hi THEN <<>> ELSE PagesInOrder(lo, hi - 1) \o PageContent(site, hi)

\* A sequential sweep over the pages from page to end, started with the posts
\* ps, when no navigation fails and the budget never runs out.
RECURSIVE SweptInOrder(_, _, _, _)
SweptInOrder(ps, page, end, empty) ==
    IF page > end THEN ps
    ELSE LET arr == PageContent(site, page)
         IN IF arr = <<>>
            THEN IF empty + 1 >= EMPTY_PAGE_STOP THEN ps
                 ELSE SweptInOrder(ps, page + 1, end, empty + 1)
            ELSE IF CapHit(ps \o arr) THEN ps \o arr
                 ELSE SweptInOrder(ps \o arr, page + 1, end, 0)

Short(ps) == MaxComments(topk) = 0 \/ Len(ps) < MaxComments(topk)

\* What the crawl of a thread of several pages accumulates, page after page.
CrawledInOrder ==
    LET swept == first \o PagesInOrder(2, max_pages_to_fetch)
        further == IF Short(swept)
                   THEN SweptInOrder(swept, max_pages_to_fetch + 1,
                                     max_pages_to_fetch + ContinueSpan, 0)
                   ELSE swept
    IN IF Short(swept) /\ Short(further)
       THEN SweptInOrder(further, 2, total_pages, 0)
       ELSE further

\* No navigation failed and the budget never ran out.
Undisturbed == fails = 0 /\ (budget = 0 \/ now = 0)

\* C25: asyncio.gather hands the pages' posts over in task order whatever the
\* order of completion; and a crawl in which nothing fails and the budget
\* holds returns, under every interleaving of the completions, the list the
\* pages give when taken one after the other.
C25_SameUnderEveryInterleaving ==
    [][/\ (pc = "sweep" /\ pc' # "sweep" /\ pc' # "failed")
             => posts' = posts \o
                         (LET G[k \in 1 .. max_pages_to_fetch] ==
                                  IF k = 1 THEN <<>> ELSE G[k - 1] \o res[k]
                          IN G[max_pages_to_fetch])
       /\ (pc' = "done" /\ total_pages > 1 /\ Undisturbed)
             => result'.comments = Merge(CrawledInOrder, MaxComments(topk))]_vars

\* A later page was handed in before an earlier one, which is still being
\* fetched, and a task waits at the gate.
C25_Witness ==
    /\ pc = "sweep"
    /\ fails = 0
    /\ site.pages > 1
    /\ \E i, j \in DOMAIN task :
           i < j /\ task[i] = "nav" /\ task[j] = "done" /\ res[j] # <<>>
    /\ \E i \in DOMAIN task : task[i] = "wait"

\* ---------------------------------------------------- extraction fallback
\* What each script yields on the page at hand, a failure being no record.
PrimaryYield == IF dom.primary_ok THEN PrimaryData(dom.primary) ELSE <<>>
FallbackYield == IF dom.fallback_ok THEN FallbackData(dom.fallback) ELSE <<>>

\* C26: with 5 or more primary records the primary list is returned and the
\* fallback is not run; with fewer the fallback is run and the strictly
\* longer list is returned, the primary on a tie; a failed extraction
\* counts as an empty list, and the call never raises.
C26_FallbackBelowFive ==
    /\ pc # "extract_raised"
    /\ ~ ext.raised
    /\ pc = "extracted" =>
          /\ Len(PrimaryYield) >= 5 =>
                /\ ext.returned = PrimaryYield
                /\ ~ ext.ran_fallback
          /\ Len(PrimaryYield) < 5 =>
                /\ ext.ran_fallback
                /\ Len(FallbackYield) > Len(PrimaryYield) => ext.returned = FallbackYield
                /\ Len(FallbackYield) <= Len(PrimaryYield) => ext.returned = PrimaryYield

\* A tie below the threshold: both scripts find three records, the primary
\* ones are returned.
C26_Witness ==
    /\ pc = "extracted"
    /\ dom.primary = 3 /\ dom.primary_ok
    /\ dom.fallback = 3 /\ dom.fallback_ok
    /\ ext.ran_fallback
    /\ ext.returned = PrimaryData(3)

\* -------------------------------------------------------- stopping on the cap
\* C27 as stated: when the crawl stopped fetching because the accumulated
\* posts had reached the cap N > 0, it returns exactly N comments.
C27_AsStated ==
    (pc = "done" /\ CapHit(posts)) => Len(Comments) = MaxComments(topk)

\* ------------------------------------------------------ unlabelled boards
Unlabelled(b) == Strip(b.category_l1) = <<>> /\ Strip(b.category_l2) = <<>>

\* C28 as stated: for a non-empty query the category mode never returns a
\* board whose two category labels are both empty; on an index whose boards
\* carry no label the answer is fuzzy and holds at most max(1, topk) boards.
C28_AsStated ==
    (Answered /\ file = "index" /\ Needle # <<>>) =>
        /\ answer.query_type = "category" =>
              \A i \in DOMAIN answer.results : ~ Unlabelled(answer.results[i])
        /\ (\A i \in DOMAIN index : Unlabelled(index[i])) =>
              /\ answer.query_type = "fuzzy"
              /\ Len(answer.results) <= Max2(1, GivenTopk)

\* ------------------------------------------------------ persisting a build
\* C29 as stated: build_boards_index writes the index file only when the
\* shallow crawl produced at least one board, so a build that found nothing
\* leaves the file, and the index persisted before, as they were.
C29_AsStated ==
    [][(pc = "build" /\ pc' = "built" /\ built'.boards = <<>>)
           => UNCHANGED <<file, index>>]_vars

\* ------------------------------------------------- termination of a crawl
\* The most page navigations a crawl may start, from the inferred page count
\* and the constants: page 1, then the concurrent sweep, the continuation
\* sweep and the rescan; or page 1, then the chain (two navigations a step)
\* and the sequential sweep of pages 2 .. MAX_CHAIN_STEPS.
NavBound(tp) ==
    IF tp > 1
    THEN 1 + (tp - 1) + ContinueSpan + (tp - 1)
    ELSE 1 + 2 * MAX_CHAIN_STEPS + (MAX_CHAIN_STEPS - 1)

\* The place of a phase in the order the phases follow one another.
PhaseRank ==
    CASE pc = "start" -> 6
      [] pc \in {"sweep", "chain"} -> 5
      [] pc = "cont" -> 4
      [] pc \in {"rescan", "seq"} -> 3
      [] pc = "merge" -> 2
      [] OTHER -> 1

\* The steps the current loop can still take.
LoopRank ==
    CASE pc = "sweep" ->
            2 * Cardinality({i \in DOMAIN task : task[i] = "wait"})
              + Cardinality({i \in DOMAIN task : task[i] = "nav"})
      [] pc \in {"cont", "rescan", "seq"} ->
            2 * (rng.end + 1 - rng.page)
              + (IF rng.st = "top" THEN 1 ELSE 0)
      [] pc = "chain" ->
            3 * (MAX_CHAIN_STEPS - ch.steps)
              + (CASE ch.st = "nav" -> 2 [] ch.st = "lookup" -> 1 [] OTHER -> 0)
      [] OTHER -> 0

\* A natural number that every step of crawl_post lowers.
Rank == 200 * PhaseRank + LoopRank + (IF now < BudgetDefault THEN 1 ELSE 0)

Running == pc \notin {"done", "failed"}

\* The guards of the actions: the crawl has a step to take.
CanStep ==
    CASE pc = "sweep" ->
            \/ \E i \in DOMAIN task : task[i] = "nav"
            \/ \E i \in DOMAIN task : task[i] = "wait" /\ CanAcquire(sem)
            \/ \A i \in DOMAIN task : task[i] = "done"
      [] pc \in {"cont", "rescan", "seq"} -> rng.st \in {"top", "nav"}
      [] pc = "chain" -> ch.st \in {"top", "nav", "lookup"}
      [] OTHER -> pc \in {"start", "merge"}

\* C30: crawl_post always terminates (every step lowers Rank, a natural
\* number, and a crawl that has not returned can always take a step), and
\* the navigations it starts never exceed NavBound(total_pages): each
\* concurrent task is a page of 2 .. total_pages, every sequential sweep stays
\* inside its window of pages, and the chain takes at most MAX_CHAIN_STEPS
\* steps, whatever the cap and the budget.
C30_TerminatesBoundedNavigations ==
    /\ [](Running => CanStep)
    /\ [][/\ Rank' < Rank /\ Rank' >= 0
          /\ navs' <= NavBound(total_pages')
          /\ \A j \in DOMAIN task :
                (task[j] = "wait" /\ j \in DOMAIN task' /\ task'[j] = "nav")
                    => j \in 2 .. total_pages
          /\ RangeNavStart =>
                rng.page \in
                    CASE pc = "cont" -> (max_pages_to_fetch + 1) ..
                                            (max_pages_to_fetch + ContinueSpan)
                      [] pc = "rescan" -> 2 .. total_pages
                      [] OTHER -> 2 .. MAX_CHAIN_STEPS
          /\ ChainNavStart => ch'.steps \in 1 .. MAX_CHAIN_STEPS]_vars

\* A crawl with no cap and no budget has returned after the chain took all its
\* MAX_CHAIN_STEPS steps and the sequential sweep all its pages: it started
\* exactly as many navigations as the bound allows.
C30_Witness ==
    /\ pc = "done"
    /\ MaxComments(topk) = 0
    /\ budget = 0
    /\ total_pages = 1
    /\ navs = NavBound(1)
====
